---- MODULE Spec2Model ----
(***************************************************************************)
(* Aurelian's Closet: the outfit generation pipeline.                      *)
(*                                                                         *)
(*   - fiboService:     generateFIBOOutfit, generateFIBOBatch              *)
(*   - geminiService:   generateOutfitSpecification, generateOutfitImage   *)
(*   - unifiedPlatform: UnifiedAIFashionPlatform.processUserRequest        *)
(*                                                                         *)
(* The runtime is single-threaded and cooperative: an action of the model  *)
(* is the code that runs between two suspension points (awaits).           *)
(***************************************************************************)
EXTENDS Integers, Sequences, FiniteSets, TLC

VARIABLES
    \* ---- generateFIBOBatch (fiboService) ----
    paramsArray,   \* the argument of generateFIBOBatch
    bpc,           \* where the batch call is: idle, await, returned, thrown
    i,             \* the loop index of generateFIBOBatch
    results,       \* the local results array
    batches,       \* the values the local `batch` has taken, in order
    calls,         \* the generateFIBOOutfit calls issued, in issue order
    pall,          \* the Promise.all the batch call is awaiting
    settled,       \* the indices of calls, in the order the calls settled
    bthrown,       \* the error generateFIBOBatch threw
    \* ---- DatadogObservability (datadogService) ----
    ddEnabled,     \* DatadogObservability.enabled
    metricsBuffer, \* DatadogObservability.metricsBuffer, as the metric names
    telemetry,     \* the records streamLLMTelemetry was called with, in order
    lastOp,        \* the public operation that touched the services last
    \* ---- geminiService ----
    specCall,      \* the generateOutfitSpecification call under way
    imageCall,     \* the generateOutfitImage call under way
    \* ---- App (the UI) ----
    uiParams,      \* useState params
    isGenerating,  \* useState isGenerating
    currentSpec,   \* useState currentSpec
    generatedImage,\* useState generatedImage
    history,       \* useState history
    alerts,        \* how many times alert(...) was shown
    runs,          \* how many times handleGenerate was started
    upc,           \* where handleGenerate is: idle, spec, image
    \* ---- ConfluentStreamingPipeline, VoiceFashionAssistant ----
    kafkaLive,     \* streaming.enabled and a connected producer
    streamCalls,   \* the produce... calls made, in order
    voiceEnabled,  \* VoiceFashionAssistant.enabled
    conversationHistory, \* VoiceFashionAssistant.conversationHistory
    pushLog,       \* the exchanges history.push(...) was given, by user, in order
    vcall,         \* the voiceConversation call of each caller
    vstarted,      \* how many voiceConversation calls were started
    \* ---- UnifiedAIFashionPlatform.processUserRequest ----
    request,       \* the request being processed
    rpc,           \* where processUserRequest is
    route,         \* the sub-pipeline the request was dispatched to
    fiboCall,      \* the generateFIBOOutfit call of the request
    voiceText,     \* responseText of voiceConversation
    result,        \* the local result of processUserRequest
    caught,        \* the error the catch block of processUserRequest caught
    stepErrors,    \* the errors the steps of the request threw, in order
    routerOut,     \* how processUserRequest ended for its caller
    served,        \* how many requests were started
    \* ---- UnifiedAIFashionPlatform.calculateQualityScore ----
    scoreSpec,     \* the outfitSpec calculateQualityScore is given
    scoreDescLen,  \* outfitSpec.description.length, -1 without a description
    scorePc,       \* whether calculateQualityScore has returned
    qualityScore,  \* what calculateQualityScore returned
    \* ---- traffic-generator ----
    scenarioArg,   \* process.argv[2], the empty string when there is none
    tgPc,          \* where main is: idle, run, delay, pause, done, fatal
    generator,     \* the TrafficGenerator under way
    incidents,     \* the incidents the loop of main has yet to go through
    tgLeft,        \* the iterations the loop of run has yet to make
    tgRuns,        \* the generators whose run() was completed, in order
    tgRecord,      \* the record streamLLMTelemetry of the script was last given
    \* ---- UnifiedAIFashionPlatform.initialize, shutdown ----
    initialized,   \* UnifiedAIFashionPlatform.initialized
    icall,         \* the initialize call of each caller
    istarted,      \* how many initialize calls were started
    initProducerCalls, \* how many times initProducer was invoked
    initConsumerCalls, \* how many times initConsumer was invoked
    kafkaEnabled,  \* ConfluentStreamingPipeline.enabled
    producer,      \* ConfluentStreamingPipeline.producer
    consumer,      \* ConfluentStreamingPipeline.consumer
    sdPc           \* where the shutdown call is: idle, producer, consumer

batchVars == <<paramsArray, bpc, i, results, batches, calls, pall, settled, bthrown>>

monitorVars == <<ddEnabled, metricsBuffer, telemetry, lastOp>>

genVars == <<specCall, imageCall>>

uiVars == <<uiParams, isGenerating, currentSpec, generatedImage, history, alerts,
            runs, upc>>

serviceVars == <<kafkaLive, streamCalls, voiceEnabled, conversationHistory,
                 pushLog>>

voiceVars == <<vcall, vstarted>>

routerVars == <<request, rpc, route, fiboCall, voiceText, result, caught,
                stepErrors, routerOut, served>>

scoreVars == <<scoreSpec, scoreDescLen, scorePc, qualityScore>>

trafficVars == <<scenarioArg, tgPc, generator, incidents, tgLeft, tgRuns, tgRecord>>

platformVars == <<initialized, icall, istarted, initProducerCalls,
                  initConsumerCalls, kafkaEnabled, producer, consumer, sdPc>>

vars == <<batchVars, monitorVars, genVars, uiVars, serviceVars, routerVars,
          scoreVars, voiceVars,
                trafficVars,
                platformVars>>

\* what a generateFIBOBatch call leaves alone
batchFrame == <<monitorVars, genVars, uiVars, serviceVars, routerVars, scoreVars,
                voiceVars,
                trafficVars,
                platformVars>>

\* what the UI workflow leaves alone
uiFrame == <<batchVars, serviceVars, routerVars, scoreVars, voiceVars,
                trafficVars,
                platformVars>>

\* what processUserRequest leaves alone
routerFrame == <<batchVars, uiVars, specCall, scoreVars, voiceVars,
                trafficVars,
                platformVars>>

\* what the monitor and the platform's initialize and shutdown leave alone
platformFrame == <<batchVars, genVars, uiVars, serviceVars, routerVars, scoreVars,
                   voiceVars, trafficVars>>

\* what the traffic-generator script leaves alone
trafficFrame == <<batchVars, monitorVars, genVars, uiVars, serviceVars, routerVars,
                  scoreVars, voiceVars,
                platformVars>>

\* what a calculateQualityScore call leaves alone
scoreFrame == <<batchVars, monitorVars, genVars, uiVars, serviceVars, routerVars,
                voiceVars,
                trafficVars,
                platformVars>>

\* what voiceConversation leaves alone
voiceFrame == <<batchVars, monitorVars, genVars, uiVars, routerVars, scoreVars,
                kafkaLive, streamCalls,
                trafficVars,
                platformVars>>

-----------------------------------------------------------------------------
(* Bounds of the model *)

\* the longest paramsArray given to generateFIBOBatch
MaxBatch == 7

\* how many times the user presses Generate
MaxRuns == 2

\* how many requests processUserRequest is given, one after another
MaxRequests == 1

\* how many voiceConversation calls the callers make
MaxVoiceCalls == 12

-----------------------------------------------------------------------------
(* Values *)

Min(a, b) == IF a < b THEN a ELSE b

\* What JSON.parse can give back for the model's text, as far as the code
\* looks at it: which of the fields the code reads are there.
JsonObject(cam, sty, tex, col, desc) ==
    [kind |-> "object", camera |-> cam, style_parameters |-> sty,
     texture_layers |-> tex, color_scheme |-> col, description |-> desc,
     fibo_structured_params |-> "absent"]

\* the value of a variable that holds no spec
NoSpec ==
    [kind |-> "undefined", camera |-> "absent", style_parameters |-> "absent",
     texture_layers |-> "absent", color_scheme |-> "absent",
     description |-> "absent", fibo_structured_params |-> "absent"]

\* JSON.parse("null")
JsonNull == [NoSpec EXCEPT !.kind = "null"]

JsonObjects ==
    { JsonObject(cam, sty, tex, col, desc) :
        cam \in {"absent", "present"},
        sty \in {"absent", "present"},
        tex \in {"absent", "notarray", "empty", "nonempty"},
        col \in {"absent", "partial", "badhex", "valid"},
        desc \in {"absent", "short", "long"} }

JsonValues == JsonObjects \cup {JsonNull}

\* A settled generateContent call: the promise rejected, or it fulfilled
\* with a response whose text is missing, empty, not JSON, or JSON.
\* len is the length of the text.
Response(k, n, j) == [kind |-> k, len |-> n, json |-> j]

Rejected == Response("reject", 0, NoSpec)
UndefinedText == Response("undefined", 0, NoSpec)
EmptyText == Response("empty", 0, NoSpec)
InvalidText(n) == Response("invalid", n, NoSpec)
JsonText(n, j) == Response("json", n, j)

\* the result of an async call: a value returned or an error thrown
Return(v) == [ok |-> TRUE, val |-> v, err |-> "none"]
Throw(e) == [ok |-> FALSE, val |-> NoSpec, err |-> e]

-----------------------------------------------------------------------------
(* fiboService: generateFIBOOutfit *)

\* The reads of generateFIBOOutfit that throw a TypeError when the parsed
\* value lacks what is read: spec.camera.angle, spec.style_parameters.realism,
\* spec.texture_layers[0], spec.color_scheme.primary.hex / .accent.hex.
FIBOReadsSucceed(j) ==
    /\ j.kind = "object"
    /\ j.camera = "present"
    /\ j.style_parameters = "present"
    /\ j.texture_layers # "absent"
    /\ j.color_scheme \in {"badhex", "valid"}

\* generateFIBOOutfit from the point its model request settles with resp
generateFIBOOutfit(resp) ==
    IF resp.kind = "reject" THEN Throw("UpstreamError")
    ELSE IF resp.kind \in {"undefined", "empty"}
         THEN Throw("No JSON returned from FIBO engine")
    ELSE IF resp.kind = "invalid" THEN Throw("SyntaxError")
    ELSE IF ~FIBOReadsSucceed(resp.json) THEN Throw("TypeError")
    ELSE Return([resp.json EXCEPT !.fibo_structured_params = "attached"])

-----------------------------------------------------------------------------
(* fiboService: generateFIBOBatch *)

batchSize == 3

\* the occasions of the requests of a batch: request j asks for Occasions[j]
Occasions ==
    <<"Evening Gala", "Work", "Casual", "Dinner", "Date", "Party",
      "Formal", "Business Meeting", "Wedding", "Brunch">>

OutfitParams(j) ==
    [occasion |-> Occasions[j], weather |-> "Cool 15C",
     mood |-> "Elegant", style |-> "Classic Evening Wear"]

\* the answers of the model endpoint to the requests of a batch
BatchResponses ==
    { Rejected, EmptyText,
      JsonText(120, JsonObject("present", "present", "nonempty", "valid", "long")),
      JsonText(80, JsonObject("present", "present", "empty", "badhex", "short")) }

\* paramsArray.slice(from, from + batchSize), from counted from 0
BatchSliceLong(arr, from) ==
    SubSeq(arr, from + 1, Min(from + batchSize + 1, Len(arr)))

BatchSlice(arr, from) ==
    SubSeq(arr, from + 1, Min(from + batchSize, Len(arr)))

NoPromiseAll ==
    [st |-> "none", members |-> <<>>, vals |-> <<>>, remaining |-> 0,
     err |-> "none"]

\* Promise.all(promises): members are the indices in calls of the promises
PromiseAll(members) ==
    [st |-> "pending", members |-> members,
     vals |-> [k \in 1..Len(members) |-> NoSpec],
     remaining |-> Len(members), err |-> "none"]

\* the slot of a Promise.all that holds no value yet
FirstFree(p) ==
    CHOOSE k \in 1..Len(p.members) :
        /\ p.vals[k] = NoSpec
        /\ \A m \in 1..(k - 1) : p.vals[m] # NoSpec

\* element k of a Promise.all fulfils with v: values arrive in any order
\* and are placed in the order they arrived
PromiseAllResolveInArrivalOrder(p, k, v) ==
    IF p.st # "pending" THEN p
    ELSE [p EXCEPT !.vals[FirstFree(p)] = v,
                   !.remaining = p.remaining - 1,
                   !.st = IF p.remaining = 1 THEN "fulfilled" ELSE "pending"]

\* element k of a Promise.all fulfils with v: the first value fulfils the whole
PromiseAllResolveFirst(p, k, v) ==
    IF p.st # "pending" THEN p
    ELSE [p EXCEPT !.vals[k] = v, !.remaining = p.remaining - 1,
                   !.st = "fulfilled"]

\* element k of a Promise.all fulfils with v: v is kept at index k and the
\* whole fulfils when no element remains
PromiseAllResolveElement(p, k, v) ==
    IF p.st # "pending" THEN p
    ELSE [p EXCEPT !.vals[k] = v, !.remaining = p.remaining - 1,
                   !.st = IF p.remaining = 1 THEN "fulfilled" ELSE "pending"]

\* element k of a Promise.all rejects with e: the failure is swallowed and the
\* element counts as done
PromiseAllRejectSwallowed(p, k, e) ==
    IF p.st # "pending" THEN p
    ELSE [p EXCEPT !.remaining = p.remaining - 1,
                   !.st = IF p.remaining = 1 THEN "fulfilled" ELSE "pending"]

\* element k of a Promise.all rejects with e: nothing comes of it
PromiseAllRejectIgnored(p, k, e) == p

\* element k of a Promise.all rejects with e: the whole fulfils at once with
\* the values it has
PromiseAllRejectFulfils(p, k, e) ==
    IF p.st # "pending" THEN p
    ELSE [p EXCEPT !.st = "fulfilled"]

\* element k of a Promise.all rejects with e: the first rejection rejects the
\* whole, later ones are ignored
PromiseAllRejectElement(p, k, e) ==
    IF p.st # "pending" THEN p
    ELSE [p EXCEPT !.st = "rejected", !.err = e]

\* the place of call c among the members of p, 0 when it is none of them
MemberIndex(p, c) ==
    IF \E k \in 1..Len(p.members) : p.members[k] = c
    THEN CHOOSE k \in 1..Len(p.members) : p.members[k] = c
    ELSE 0

\* One turn of the for loop from its test on: either batch.map(...) issues
\* the requests of the next chunk, all at once, and the call suspends at
\* await Promise.all(...), or the loop ends and the call returns results.
BatchLoop(from) ==
    IF from < Len(paramsArray)
    THEN LET batch == BatchSlice(paramsArray, from)
             issued == [k \in 1..Len(batch) |->
                          [params |-> batch[k], st |-> "inflight",
                           val |-> NoSpec, err |-> "none"]]
         IN  /\ batches' = Append(batches, batch)
             /\ calls' = calls \o issued
             /\ pall' = PromiseAll([k \in 1..Len(batch) |-> Len(calls) + k])
             /\ bpc' = "await"
    ELSE /\ bpc' = "returned"
         /\ pall' = NoPromiseAll
         /\ UNCHANGED <<batches, calls>>

\* generateFIBOBatch is called
BatchCall ==
    /\ bpc = "idle"
    /\ results' = <<>>
    /\ i' = 0
    /\ BatchLoop(0)
    /\ UNCHANGED <<paramsArray, settled, bthrown>>
    /\ UNCHANGED batchFrame

\* the model request of call c settles with resp and generateFIBOOutfit runs
\* to its end
RequestSettle(c, resp) ==
    /\ calls[c].st = "inflight"
    /\ LET out == generateFIBOOutfit(resp)
           k == MemberIndex(pall, c)
       IN  /\ calls' = [calls EXCEPT ![c].st = IF out.ok THEN "ok" ELSE "err",
                                     ![c].val = out.val,
                                     ![c].err = out.err]
           /\ pall' = IF k = 0 THEN pall
                      ELSE IF out.ok THEN PromiseAllResolveElement(pall, k, out.val)
                      ELSE PromiseAllRejectElement(pall, k, out.err)
    /\ settled' = Append(settled, c)
    /\ UNCHANGED <<paramsArray, bpc, i, results, batches, bthrown>>
    /\ UNCHANGED batchFrame

\* the batch call resumes from await Promise.all(...)
BatchResume ==
    /\ bpc = "await"
    /\ pall.st \in {"fulfilled", "rejected"}
    /\ IF pall.st = "fulfilled"
       THEN /\ results' = results \o pall.vals
            /\ i' = i + batchSize
            /\ BatchLoop(i + batchSize)
            /\ UNCHANGED bthrown
       ELSE /\ bpc' = "thrown"
            /\ bthrown' = pall.err
            /\ UNCHANGED <<i, results, batches, calls, pall>>
    /\ UNCHANGED <<paramsArray, settled>>
    /\ UNCHANGED batchFrame

BatchStart ==
    /\ paramsArray \in { [j \in 1..n |-> OutfitParams(j)] : n \in 0..MaxBatch }
    /\ bpc = "idle"
    /\ i = 0
    /\ results = <<>>
    /\ batches = <<>>
    /\ calls = <<>>
    /\ pall = NoPromiseAll
    /\ settled = <<>>
    /\ bthrown = "none"

\* where generateFIBOBatch is not called
BatchUnused ==
    /\ paramsArray = <<>>
    /\ bpc = "idle"
    /\ i = 0
    /\ results = <<>>
    /\ batches = <<>>
    /\ calls = <<>>
    /\ pall = NoPromiseAll
    /\ settled = <<>>
    /\ bthrown = "none"


-----------------------------------------------------------------------------
(* Numbers: the doubles of the quality score *)

\* A double in [0, 2) is held exactly, as a whole number of 2^-57 (the last
\* place of the double 0.05), in three limbs of 20 bits, the highest first.
Limb == 2^20

\* the number of limbs h, m, l that may be over a limb
FromParts(h, m, l) ==
    LET m1 == m + (l \div Limb)
    IN  <<h + (m1 \div Limb), m1 % Limb, l % Limb>>

\* the double literals 0, 0.7, 0.1, 0.05 and 1.0
Double000 == <<0, 0, 0>>
Double070 == <<91750, 419430, 419424>>
Double010 == <<13107, 209715, 209716>>
Double005 == <<6553, 629145, 629146>>
Double100 == <<131072, 0, 0>>

\* the number of bits of n
BitLen(n) == CHOOSE k \in 0..30 : n < 2^k /\ (k = 0 \/ 2^(k - 1) <= n)

\* the double nearest to s, ties to even: a double keeps 53 bits
RoundToDouble(s) ==
    LET e == BitLen(s[1]) - 13
    IN  IF e <= 0 THEN s
        ELSE LET u  == 2^e
                 r  == s[3] % u
                 up == 2 * r > u \/ (2 * r = u /\ (s[3] \div u) % 2 = 1)
             IN  FromParts(s[1], s[2], s[3] - r + (IF up THEN u ELSE 0))

\* a + b of two doubles
DoubleAdd(a, b) == RoundToDouble(FromParts(a[1] + b[1], a[2] + b[2], a[3] + b[3]))

\* a <= b
DoubleLeq(a, b) ==
    \/ a[1] < b[1]
    \/ a[1] = b[1] /\ a[2] < b[2]
    \/ a[1] = b[1] /\ a[2] = b[2] /\ a[3] <= b[3]

\* Math.min(a, b)
MathMin(a, b) == IF DoubleLeq(a, b) THEN a ELSE b

-----------------------------------------------------------------------------
(* datadogService: DatadogObservability *)

CHARS_PER_TOKEN == 4

\* Math.ceil(n / CHARS_PER_TOKEN)
EstimateTokens(n) == (n + CHARS_PER_TOKEN - 1) \div CHARS_PER_TOKEN

\* a GenerationTelemetry record; generation_ms, a reading of the clock, is
\* left out
GenerationTelemetry(inTok, outTok, angle, ok, hasScore, score, user, endpoint) ==
    [input_tokens |-> inTok, output_tokens |-> outTok,
     model |-> "gemini-2.5-flash", camera_angle |-> angle, success |-> ok,
     quality_defined |-> hasScore, quality_score |-> score,
     user_id |-> user, endpoint |-> endpoint]

\* metrics where a quality_score of 0 counts as none
MetricsOfTruthyScore(data) ==
    <<"vertexai.tokens.input", "vertexai.tokens.output",
      "fibo.generation.duration", "fibo.api.success_rate">>
    \o (IF data.quality_defined /\ data.quality_score # Double000
           THEN <<"outfit.generation.quality">> ELSE <<>>)

\* the metrics streamLLMTelemetry makes of one record
MetricsOf(data) ==
    <<"vertexai.tokens.input", "vertexai.tokens.output",
      "fibo.generation.duration", "fibo.api.success_rate">>
    \o (IF data.quality_defined THEN <<"outfit.generation.quality">> ELSE <<>>)

\* metricsBuffer is flushed when it is longer than this
FlushAbove == 20

\* a telemetry forwarder whose call fails when the record is one of a
\* successful generation
streamLLMTelemetryRejectsSuccess(data) == data.success

\* whether the promise of streamLLMTelemetry(data) rejects: the method holds
\* no throw and calls nothing that throws
streamLLMTelemetryRejects(data) == FALSE

\* streamLLMTelemetry(data), with flushMetrics
streamLLMTelemetry(data) ==
    /\ telemetry' = Append(telemetry, data)
    /\ metricsBuffer' =
          IF ~ddEnabled THEN metricsBuffer
          ELSE LET pushed == metricsBuffer \o MetricsOf(data)
               IN  IF Len(pushed) > FlushAbove THEN <<>> ELSE pushed
    /\ lastOp' = "streamLLMTelemetry"
    /\ UNCHANGED ddEnabled

MonitorStart ==
    /\ ddEnabled \in BOOLEAN
    /\ metricsBuffer = <<>>
    /\ telemetry = <<>>
    /\ lastOp = "none"

\* the monitor where nothing calls it
MonitorUnused ==
    /\ ddEnabled = FALSE
    /\ metricsBuffer = <<>>
    /\ telemetry = <<>>
    /\ lastOp = "none"

-----------------------------------------------------------------------------
(* geminiService: generateOutfitSpecification *)

\* the length of the prompt template without the four parameters
PromptTemplateLen == 755

PromptLength(params) ==
    PromptTemplateLen + Len(params.occasion) + Len(params.weather)
        + Len(params.mood) + Len(params.style)

\* an object with every field the code reads
FullObject == JsonObject("present", "absent", "nonempty", "valid", "long")

\* the objects the model endpoint answers with: the full one, the full one
\* with one field changed, and the empty one
AnsweredObjects ==
    {FullObject, JsonObject("absent", "absent", "absent", "absent", "absent")}
    \cup {[FullObject EXCEPT !.camera = "absent"]}
    \cup {[FullObject EXCEPT !.style_parameters = "present"]}
    \cup {[FullObject EXCEPT !.texture_layers = t] : t \in {"absent", "notarray", "empty"}}
    \cup {[FullObject EXCEPT !.color_scheme = c] : c \in {"absent", "partial", "badhex"}}
    \cup {[FullObject EXCEPT !.description = d] : d \in {"absent", "short"}}

\* the length of the JSON text of j
TextLength(j) ==
    IF j.kind = "null" THEN 4
    ELSE IF j.camera = "absent" /\ j.color_scheme = "absent" /\ j.texture_layers = "absent"
         THEN 2
    ELSE IF j.description = "long" THEN 341 ELSE 214

\* the answers of the model endpoint to a specification request
SpecResponses ==
    {Rejected, UndefinedText, EmptyText, InvalidText(17)}
    \cup {JsonText(TextLength(j), j) : j \in AnsweredObjects \cup {JsonNull}}

\* a try block that fills in the layers and the colours the answer lacks
generateOutfitSpecificationTryRepairs(resp) ==
    IF resp.kind = "reject" THEN Throw("UpstreamError")
    ELSE IF resp.kind \in {"undefined", "empty"} THEN Throw("No JSON returned")
    ELSE IF resp.kind = "invalid" THEN Throw("SyntaxError")
    ELSE IF resp.json.kind = "null" THEN Throw("TypeError")
    ELSE Return([resp.json EXCEPT !.texture_layers = "nonempty",
                                  !.color_scheme = "valid"])

\* the try block of generateOutfitSpecification from the response on, up to
\* the telemetry call: the spec it is about to return, or what it throws
generateOutfitSpecificationTry(resp) ==
    IF resp.kind = "reject" THEN Throw("UpstreamError")
    ELSE IF resp.kind \in {"undefined", "empty"} THEN Throw("No JSON returned")
    ELSE IF resp.kind = "invalid" THEN Throw("SyntaxError")
    ELSE IF resp.json.kind = "null" THEN Throw("TypeError")
    ELSE Return(resp.json)

\* the record of the try block
SpecSuccessTelemetry(params, resp) ==
    GenerationTelemetry(EstimateTokens(PromptLength(params)),
                        EstimateTokens(resp.len),
                        IF resp.json.camera = "present" THEN "angle" ELSE "undefined",
                        TRUE, FALSE, Double000, "undefined", "outfit_specification")

\* a failure record that reports the generation as a success
SpecFailureTelemetryAsSuccess(params) ==
    GenerationTelemetry(EstimateTokens(PromptLength(params)), 0, "undefined",
                        TRUE, FALSE, Double000, "undefined", "outfit_specification")

\* the record of the catch block
SpecFailureTelemetry(params) ==
    GenerationTelemetry(EstimateTokens(PromptLength(params)), 0, "undefined",
                        FALSE, FALSE, Double000, "undefined", "outfit_specification")

IdleSpecCall ==
    [pc |-> "idle", params |-> OutfitParams(1), resp |-> Rejected,
     block |-> "try", out |-> Throw("none"), requests |-> 0,
     forwarded |-> <<>>]

\* generateOutfitSpecification(params) up to await generateContent(...)
SpecCallIssued(params) ==
    [IdleSpecCall EXCEPT !.pc = "request", !.params = params, !.requests = 1]

\* the catch block that lets the function return nothing instead of
\* throwing again
SpecCatchSwallows(call, e) == Return(NoSpec)

\* the catch block of generateOutfitSpecification ends by throwing e again
SpecCatchRethrows(call, e) == Throw(e)

\* a generateOutfitSpecification that sends its request once more after a
\* first failure
SpecAfterResponseRetries(call, resp) ==
    LET out == generateOutfitSpecificationTry(resp)
        rec == IF out.ok THEN SpecSuccessTelemetry(call.params, resp)
               ELSE SpecFailureTelemetry(call.params)
    IN  IF ~out.ok /\ call.requests < 2
        THEN [call EXCEPT !.requests = @ + 1, !.resp = resp,
                          !.forwarded = Append(@, rec)]
        ELSE [call EXCEPT !.pc = "telemetry", !.resp = resp,
                          !.block = IF out.ok THEN "try" ELSE "catch",
                          !.out = IF out.ok THEN out ELSE Throw(out.err),
                          !.forwarded = Append(@, rec)]

\* the model request settles with resp: the function runs to its call of
\* streamLLMTelemetry, in the try block or in the catch block
SpecAfterResponse(call, resp) ==
    LET out == generateOutfitSpecificationTry(resp)
        rec == IF out.ok THEN SpecSuccessTelemetry(call.params, resp)
               ELSE SpecFailureTelemetry(call.params)
    IN  [call EXCEPT !.pc = "telemetry", !.resp = resp,
                     !.block = IF out.ok THEN "try" ELSE "catch",
                     !.out = IF out.ok THEN out ELSE SpecCatchRethrows(call, out.err),
                     !.forwarded = Append(@, rec)]

\* await streamLLMTelemetry(...) in the try block threw: the catch block
\* forwards its record
SpecAfterTelemetryThrew(call) ==
    [call EXCEPT !.block = "catch",
                 !.out = SpecCatchRethrows(call, "TelemetryError"),
                 !.forwarded = Append(@, SpecFailureTelemetry(call.params))]

\* the function is over
SpecSettled(call, out) ==
    [call EXCEPT !.pc = IF out.ok THEN "returned" ELSE "thrown", !.out = out]

LastForwarded(call) == call.forwarded[Len(call.forwarded)]

-----------------------------------------------------------------------------
(* geminiService: generateOutfitImage *)

PlaceholderUrl == "https://picsum.photos/800/1000?grayscale"
DataUrl == "data:image/png;base64,..."

\* the result of a call that gives a string
ReturnUrl(u) == [ok |-> TRUE, url |-> u, err |-> "none"]
ThrowUrl(e) == [ok |-> FALSE, url |-> "undefined", err |-> e]

\* the answers of the model endpoint to an image request: a rejection, no
\* candidates, parts without inline data, a part with inline data
ImageResponses == {"reject", "nocandidates", "textonly", "inline"}

\* the template literal of imagePrompt evaluates without a TypeError:
\* spec.camera.lighting, spec.texture_layers.map(...),
\* spec.color_scheme.primary.hex and .accent.hex
ImagePromptBuilds(spec) ==
    /\ spec.kind = "object"
    /\ spec.camera = "present"
    /\ spec.texture_layers \in {"empty", "nonempty"}
    /\ spec.color_scheme \in {"badhex", "valid"}

\* a try block whose catch throws the error on
generateOutfitImageRethrows(iresp) ==
    IF iresp = "inline" THEN ReturnUrl(DataUrl)
    ELSE IF iresp = "reject" THEN ThrowUrl("UpstreamError")
    ELSE ThrowUrl("No image data returned")

\* the try and catch blocks of generateOutfitImage, from the response on
generateOutfitImageTry(iresp) ==
    IF iresp = "inline" THEN ReturnUrl(DataUrl) ELSE ReturnUrl(PlaceholderUrl)

IdleImageCall ==
    [pc |-> "idle", spec |-> NoSpec, resp |-> "none", url |-> "undefined",
     err |-> "none", requests |-> 0]

\* a generateOutfitImage that builds its prompt inside the try block, so
\* that a TypeError there ends in the placeholder
ImageCallIssuedInsideTry(spec) ==
    IF ImagePromptBuilds(spec)
    THEN [IdleImageCall EXCEPT !.pc = "request", !.spec = spec, !.requests = 1]
    ELSE [IdleImageCall EXCEPT !.pc = "returned", !.spec = spec,
                               !.url = PlaceholderUrl]

\* generateOutfitImage(spec) up to its first suspension: the prompt is built
\* outside the try block, so a TypeError there is thrown to the caller
\* before any request; otherwise the request is issued
ImageCallIssued(spec) ==
    IF ImagePromptBuilds(spec)
    THEN [IdleImageCall EXCEPT !.pc = "request", !.spec = spec, !.requests = 1]
    ELSE [IdleImageCall EXCEPT !.pc = "thrown", !.spec = spec, !.err = "TypeError"]

\* the image request settles with iresp
ImageAfterResponse(call, iresp) ==
    LET out == generateOutfitImageTry(iresp)
    IN  [call EXCEPT !.pc = IF out.ok THEN "returned" ELSE "thrown",
                     !.resp = iresp, !.url = out.url, !.err = out.err]

GenStart ==
    /\ specCall = IdleSpecCall
    /\ imageCall = IdleImageCall

-----------------------------------------------------------------------------
(* App: handleGenerate *)

INITIAL_PARAMS ==
    [occasion |-> "Evening Gala", weather |-> "Cool 15 C",
     mood |-> "Authoritative", style |-> "Avant-Garde Minimalist"]

\* what the four inputs of the form can hold
FormParams ==
    {INITIAL_PARAMS, [occasion |-> "", weather |-> "", mood |-> "", style |-> ""]}

GeneratedResult(params, spec, url) ==
    [params |-> params, spec |-> spec, imageUrl |-> url]

MOCK_HISTORY ==
    <<GeneratedResult([occasion |-> "Work", weather |-> "Rain",
                       mood |-> "Focused", style |-> "Structured"],
                      JsonObject("present", "absent", "nonempty", "valid", "short"),
                      "https://picsum.photos/400/600?grayscale"),
      GeneratedResult([occasion |-> "Casual", weather |-> "Sun",
                       mood |-> "Relaxed", style |-> "Bohemian"],
                      JsonObject("present", "absent", "nonempty", "valid", "short"),
                      "https://picsum.photos/400/600?blur=2")>>

\* an input of the form changes
SetParams(p) ==
    /\ p # uiParams
    /\ uiParams' = p
    /\ UNCHANGED <<isGenerating, currentSpec, generatedImage, history, alerts,
                   runs, upc>>
    /\ UNCHANGED <<genVars, monitorVars>>
    /\ UNCHANGED uiFrame

\* a handleGenerate without its finally block
WorkflowFailedNoFinally ==
    /\ alerts' = alerts + 1
    /\ isGenerating' = isGenerating
    /\ upc' = "idle"

\* the catch and finally blocks of handleGenerate
WorkflowFailed ==
    /\ alerts' = alerts + 1
    /\ isGenerating' = FALSE
    /\ upc' = "idle"

\* Generate is pressed (the button is disabled while isGenerating):
\* handleGenerate runs to await generateOutfitSpecification(params)
HandleGenerate ==
    /\ upc = "idle"
    /\ ~isGenerating
    /\ runs < MaxRuns
    /\ runs' = runs + 1
    /\ isGenerating' = TRUE
    /\ generatedImage' = "null"
    /\ currentSpec' = NoSpec
    /\ specCall' = SpecCallIssued(uiParams)
    /\ imageCall' = IdleImageCall
    /\ upc' = "spec"
    /\ UNCHANGED <<uiParams, history, alerts>>
    /\ UNCHANGED monitorVars
    /\ UNCHANGED uiFrame

\* the specification request settles
SpecRequestSettle(resp) ==
    /\ specCall.pc = "request"
    /\ specCall' = SpecAfterResponse(specCall, resp)
    /\ streamLLMTelemetry(LastForwarded(specCall'))
    /\ UNCHANGED imageCall
    /\ UNCHANGED uiVars
    /\ UNCHANGED uiFrame

\* a handleGenerate that asks for an image of a stock spec when the
\* specification generation failed
HandleGenerateAfterSpecImageAnyway(out) ==
    /\ specCall' = SpecSettled(specCall, out)
    /\ currentSpec' = IF out.ok THEN out.val ELSE FullObject
    /\ imageCall' = ImageCallIssued(IF out.ok THEN out.val ELSE FullObject)
    /\ IF imageCall'.pc = "thrown"
       THEN WorkflowFailed
       ELSE /\ upc' = "image"
            /\ UNCHANGED <<alerts, isGenerating>>
    /\ UNCHANGED <<uiParams, generatedImage, history, runs>>

\* generateOutfitSpecification is over with out and handleGenerate goes on:
\* to its catch block, or to await generateOutfitImage(spec)
HandleGenerateAfterSpec(out) ==
    /\ specCall' = SpecSettled(specCall, out)
    /\ IF ~out.ok
       THEN /\ WorkflowFailed
            /\ UNCHANGED <<currentSpec, imageCall>>
       ELSE /\ currentSpec' = out.val
            /\ imageCall' = ImageCallIssued(out.val)
            /\ IF imageCall'.pc = "thrown"
               THEN WorkflowFailed
               ELSE /\ upc' = "image"
                    /\ UNCHANGED <<alerts, isGenerating>>
    /\ UNCHANGED <<uiParams, generatedImage, history, runs>>

\* await streamLLMTelemetry(...) in generateOutfitSpecification is over
SpecTelemetryDone ==
    /\ specCall.pc = "telemetry"
    /\ IF streamLLMTelemetryRejects(LastForwarded(specCall))
       THEN IF specCall.block = "try"
            THEN /\ specCall' = SpecAfterTelemetryThrew(specCall)
                 /\ streamLLMTelemetry(LastForwarded(specCall'))
                 /\ UNCHANGED imageCall
                 /\ UNCHANGED uiVars
            ELSE /\ HandleGenerateAfterSpec(Throw("TelemetryError"))
                 /\ UNCHANGED monitorVars
       ELSE /\ HandleGenerateAfterSpec(specCall.out)
            /\ UNCHANGED monitorVars
    /\ UNCHANGED uiFrame

\* the image request settles and handleGenerate runs to its end
ImageRequestSettle(iresp) ==
    /\ upc = "image"
    /\ imageCall.pc = "request"
    /\ imageCall' = ImageAfterResponse(imageCall, iresp)
    /\ IF imageCall'.pc = "returned"
       THEN /\ generatedImage' = imageCall'.url
            /\ history' = <<GeneratedResult(specCall.params, imageCall.spec,
                                            imageCall'.url)>> \o history
            /\ isGenerating' = FALSE
            /\ upc' = "idle"
            /\ UNCHANGED alerts
       ELSE /\ WorkflowFailed
            /\ UNCHANGED <<generatedImage, history>>
    /\ UNCHANGED <<uiParams, currentSpec, runs, specCall>>
    /\ UNCHANGED monitorVars
    /\ UNCHANGED uiFrame

UIStart ==
    /\ uiParams = INITIAL_PARAMS
    /\ isGenerating = FALSE
    /\ currentSpec = NoSpec
    /\ generatedImage = "null"
    /\ history = MOCK_HISTORY
    /\ alerts = 0
    /\ runs = 0
    /\ upc = "idle"

-----------------------------------------------------------------------------
(* Text: strings the code searches are sequences of characters *)

UpperCase ==
    <<"A", "B", "C", "D", "E", "F", "G", "H", "I", "J", "K", "L", "M",
      "N", "O", "P", "Q", "R", "S", "T", "U", "V", "W", "X", "Y", "Z">>

LowerCase ==
    <<"a", "b", "c", "d", "e", "f", "g", "h", "i", "j", "k", "l", "m",
      "n", "o", "p", "q", "r", "s", "t", "u", "v", "w", "x", "y", "z">>

ToLowerChar(ch) ==
    IF \E k \in 1..Len(UpperCase) : UpperCase[k] = ch
    THEN LowerCase[CHOOSE k \in 1..Len(UpperCase) : UpperCase[k] = ch]
    ELSE ch

\* String.prototype.toLowerCase
ToLowerCase(t) == [k \in 1..Len(t) |-> ToLowerChar(t[k])]

\* String.prototype.includes
Includes(t, w) ==
    \E k \in 0..(Len(t) - Len(w)) : SubSeq(t, k + 1, k + Len(w)) = w

-----------------------------------------------------------------------------
(* confluentService, elevenLabsService *)

\* VoiceFashionAssistant.speechToText gives this text for any audio
MockTranscript == "I need a professional outfit for a business meeting"

\* voiceConversation of a disabled assistant
DisabledVoiceText ==
    <<"V", "o", "i", "c", "e", " ", "a", "s", "s", "i", "s", "t", "a", "n",
        "t", " ", "i", "s", " ", "n", "o", "t", " ", "c", "o", "n", "f", "i",
        "g", "u", "r", "e", "d", ".", " ", "P", "l", "e", "a", "s", "e", " ",
        "p", "r", "o", "v", "i", "d", "e", " ", "a", "n", " ", "E", "l", "e",
        "v", "e", "n", "L", "a", "b", "s", " ", "A", "P", "I", " ", "k", "e",
        "y", ".">>

\* generateResponse when the model gives no text
EmptyReplyText ==
    <<"I", "'", "m", " ", "h", "e", "r", "e", " ", "t", "o", " ", "h", "e",
        "l", "p", " ", "y", "o", "u", " ", "f", "i", "n", "d", " ", "t", "h",
        "e", " ", "p", "e", "r", "f", "e", "c", "t", " ", "o", "u", "t", "f",
        "i", "t", ".", " ", "W", "h", "a", "t", " ", "o", "c", "c", "a", "s",
        "i", "o", "n", " ", "a", "r", "e", " ", "y", "o", "u", " ", "d", "r",
        "e", "s", "s", "i", "n", "g", " ", "f", "o", "r", "?">>

\* generateResponse when the model call fails
FailedReplyText ==
    <<"I", "'", "d", " ", "b", "e", " ", "h", "a", "p", "p", "y", " ", "t",
        "o", " ", "h", "e", "l", "p", " ", "y", "o", "u", " ", "w", "i", "t",
        "h", " ", "y", "o", "u", "r", " ", "o", "u", "t", "f", "i", "t", " ",
        "s", "e", "l", "e", "c", "t", "i", "o", "n", ".", " ", "C", "o", "u",
        "l", "d", " ", "y", "o", "u", " ", "t", "e", "l", "l", " ", "m", "e",
        " ", "m", "o", "r", "e", " ", "a", "b", "o", "u", "t", " ", "t", "h",
        "e", " ", "o", "c", "c", "a", "s", "i", "o", "n", "?">>

\* the texts the model answers a voice message with
ReplyTexts ==
    { <<"T", "r", "y", " ", "a", " ", "D", "R", "E", "S", "S", " ", "f", "o",
        "r", " ", "t", "h", "e", " ", "g", "a", "l", "a">>,
      <<"S", "w", "e", "a", "r", " ", "b", "y", " ", "n", "a", "v", "y">>,
      <<"H", "e", "l", "l", "o", ",", " ", "h", "o", "w", " ", "a", "r", "e",
          " ", "y", "o", "u", "?">> }

\* a settled generateContent call of generateResponse
VoiceReply(k, t) == [kind |-> k, text |-> t]

VoiceReplies ==
    {VoiceReply("reject", <<>>), VoiceReply("empty", <<>>)}
    \cup {VoiceReply("text", t) : t \in ReplyTexts}

\* VoiceFashionAssistant.generateResponse from the response on
generateResponse(vresp) ==
    IF vresp.kind = "reject" THEN FailedReplyText
    ELSE IF vresp.kind = "empty" THEN EmptyReplyText
    ELSE vresp.text

\* the exchanges kept for a user
HistoryLimit == 10

\* VoiceFashionAssistant.updateConversationHistory
Exchange(userMessage, assistantMessage, now) ==
    [user |-> userMessage, assistant |-> assistantMessage, timestamp |-> now]

\* an updateConversationHistory that stores nothing
updateConversationHistoryDrops(h, userId, userMessage, assistantMessage, now) == h

\* an updateConversationHistory with history.pop() for history.shift()
updateConversationHistoryPops(h, userId, userMessage, assistantMessage, now) ==
    LET entries == Append(h[userId], Exchange(userMessage, assistantMessage, now))
    IN  [h EXCEPT ![userId] =
            IF Len(entries) > HistoryLimit
            THEN SubSeq(entries, 1, Len(entries) - 1) ELSE entries]

updateConversationHistory(h, userId, userMessage, assistantMessage, now) ==
    LET entries == Append(h[userId], Exchange(userMessage, assistantMessage, now))
    IN  [h EXCEPT ![userId] =
            IF Len(entries) > HistoryLimit THEN Tail(entries) ELSE entries]

\* new Date().toISOString() at a push for userId: the code never reads the
\* timestamp, so the model numbers the pushes of each user instead
Now(userId) == Len(pushLog[userId]) + 1

\* the log of the exchanges pushed
Pushed(log, userId, userMessage, assistantMessage, now) ==
    [log EXCEPT ![userId] =
        Append(@, Exchange(userMessage, assistantMessage, now))]

Users == {"user_123", "user_456"}

ServiceStart ==
    /\ kafkaLive \in BOOLEAN
    /\ streamCalls = <<>>
    /\ voiceEnabled \in BOOLEAN
    /\ conversationHistory = [u \in Users |-> <<>>]
    /\ pushLog = [u \in Users |-> <<>>]

\* the streaming pipeline and the voice assistant where nothing calls them
ServiceUnused ==
    /\ kafkaLive = FALSE
    /\ streamCalls = <<>>
    /\ voiceEnabled = FALSE
    /\ conversationHistory = [u \in Users |-> <<>>]
    /\ pushLog = [u \in Users |-> <<>>]

-----------------------------------------------------------------------------
(* elevenLabsService: VoiceFashionAssistant.voiceConversation, called by
   callers that do not wait for each other *)

\* each caller has at most one voiceConversation call under way
Callers == {"a", "b"}

\* the answer of the model to generateResponse in these calls
CallerReplies == {VoiceReply("text", <<"H", "i">>)}

\* a voiceConversation call: where it is, its userId, how many exchanges had
\* been pushed for the user when it read its context, its responseText, and
\* the timestamp of the exchange it pushed (0: none)
IdleVoiceCall ==
    [pc |-> "idle", user |-> "none", readAt |-> 0, text |-> <<>>, wroteAt |-> 0]

\* voiceConversation(userAudio, userId): a disabled assistant returns at
\* once; an enabled one runs to await this.speechToText(userAudio)
VoiceConversation(c, userId) ==
    /\ vcall[c].pc \in {"idle", "returned"}
    /\ vstarted < MaxVoiceCalls
    /\ vstarted' = vstarted + 1
    /\ vcall' = [vcall EXCEPT ![c] =
          IF voiceEnabled
          THEN [IdleVoiceCall EXCEPT !.pc = "speechToText", !.user = userId]
          ELSE [IdleVoiceCall EXCEPT !.pc = "returned", !.user = userId,
                                     !.text = DisabledVoiceText]]
    /\ UNCHANGED <<voiceEnabled, conversationHistory, pushLog>>
    /\ UNCHANGED voiceFrame

\* speechToText is over: getConversationContext reads the history, and
\* generateResponse runs to await generateContent(...)
AfterSpeechToText(c) ==
    /\ vcall[c].pc = "speechToText"
    /\ vcall' = [vcall EXCEPT ![c].pc = "generateResponse",
                              ![c].readAt = Len(pushLog[vcall[c].user])]
    /\ UNCHANGED <<vstarted, voiceEnabled, conversationHistory, pushLog>>
    /\ UNCHANGED voiceFrame

\* the model request of generateResponse settles; the call runs to
\* await this.textToSpeech(responseText, ...)
AfterGenerateResponse(c, vresp) ==
    /\ vcall[c].pc = "generateResponse"
    /\ vcall' = [vcall EXCEPT ![c].pc = "textToSpeech",
                              ![c].text = generateResponse(vresp)]
    /\ UNCHANGED <<vstarted, voiceEnabled, conversationHistory, pushLog>>
    /\ UNCHANGED voiceFrame

\* the last n elements of s
LastN(s, n) == IF Len(s) > n THEN SubSeq(s, Len(s) - n + 1, Len(s)) ELSE s

\* an update that starts from the history as the call read it for its
\* context, before its awaits
HistoryForUpdateFromContext(c) ==
    [conversationHistory EXCEPT ![vcall[c].user] =
        LastN(SelectSeq(pushLog[vcall[c].user],
                        LAMBDA e : e.timestamp <= vcall[c].readAt),
              HistoryLimit)]

\* the history updateConversationHistory starts from: it reads the map
\* itself, this.conversationHistory.get(userId), when it is called
HistoryForUpdate(c) == conversationHistory

\* textToSpeech is over: updateConversationHistory, and the call returns
AfterTextToSpeech(c) ==
    /\ vcall[c].pc = "textToSpeech"
    /\ conversationHistory' =
          updateConversationHistory(HistoryForUpdate(c), vcall[c].user,
                                    MockTranscript, vcall[c].text,
                                    Now(vcall[c].user))
    /\ pushLog' = Pushed(pushLog, vcall[c].user, MockTranscript, vcall[c].text,
                        Now(vcall[c].user))
    /\ vcall' = [vcall EXCEPT ![c].pc = "returned",
                              ![c].wroteAt = Now(vcall[c].user)]
    /\ UNCHANGED <<vstarted, voiceEnabled>>
    /\ UNCHANGED voiceFrame

VoiceStart ==
    /\ vcall = [c \in Callers |-> IdleVoiceCall]
    /\ vstarted = 0

-----------------------------------------------------------------------------
(* unifiedPlatform: UnifiedAIFashionPlatform *)

\* request.input: a string or a Buffer
StringInput(t) == [kind |-> "string", text |-> t]
BufferInput == [kind |-> "buffer", text |-> <<>>]

UnifiedRequest(user, input, type, hasParams) ==
    [user_id |-> user, input |-> input, input_type |-> type,
     has_params |-> hasParams, params |-> INITIAL_PARAMS]

Inputs ==
    { BufferInput,
      StringInput(<<"I", " ", "n", "e", "e", "d", " ", "a", " ", "f", "o", "r",
          "m", "a", "l", " ", "D", "R", "E", "S", "S">>),
      StringInput(<<"h", "e", "l", "l", "o">>) }

Requests ==
    { UnifiedRequest(u, input, type, hp) :
        u \in Users, input \in Inputs, type \in {"text", "voice"},
        hp \in BOOLEAN }

\* isOutfitGenerationRequest
Keywords ==
    { <<"o", "u", "t", "f", "i", "t">>, <<"c", "l", "o", "t", "h", "e", "s">>,
        <<"w", "e", "a", "r">>, <<"d", "r", "e", "s", "s">>, <<"g", "e", "n",
        "e", "r", "a", "t", "e">>,
      <<"c", "r", "e", "a", "t", "e">>, <<"s", "t", "y", "l", "e">> }

\* a test that looks for the keywords in the text as it is written
isOutfitGenerationRequestAsWritten(text) ==
    \E keyword \in Keywords : Includes(text, keyword)

isOutfitGenerationRequest(text) ==
    \E keyword \in Keywords : Includes(ToLowerCase(text), keyword)

\* extractOccasion: the entries of occasionMap in their order
occasionMap ==
    << <<<<"w", "o", "r", "k">>, "work">>,
       <<<<"b", "u", "s", "i", "n", "e", "s", "s">>, "business meeting">>,
       <<<<"m", "e", "e", "t", "i", "n", "g">>, "business meeting">>,
       <<<<"c", "a", "s", "u", "a", "l">>, "casual">>,
       <<<<"d", "i", "n", "n", "e", "r">>, "dinner">>,
       <<<<"d", "a", "t", "e">>, "date night">>,
       <<<<"p", "a", "r", "t", "y">>, "party">>,
       <<<<"f", "o", "r", "m", "a", "l">>, "formal event">>,
       <<<<"g", "a", "l", "a">>, "evening gala">> >>

extractOccasion(text) ==
    LET hits == { k \in 1..Len(occasionMap) :
                    Includes(ToLowerCase(text), occasionMap[k][1]) }
    IN  IF hits = {} THEN "casual"
        ELSE occasionMap[CHOOSE k \in hits : \A m \in hits : k <= m][2]

extractParamsFromText(text) ==
    [occasion |-> extractOccasion(text), weather |-> "moderate",
     mood |-> "confident", style |-> "modern professional"]

\* a calculateQualityScore whose check of texture_layers leaves out
\* length > 0
calculateQualityScoreCountsEmptyLayers(outfitSpec) ==
    IF outfitSpec.kind \in {"undefined", "null"} THEN Double000
    ELSE LET base  == Double070
             color == IF outfitSpec.color_scheme # "absent"
                      THEN DoubleAdd(base, Double010) ELSE base
             layer == IF outfitSpec.texture_layers \in {"empty", "nonempty"}
                      THEN DoubleAdd(color, Double010) ELSE color
             cam   == IF outfitSpec.camera = "present"
                      THEN DoubleAdd(layer, Double005) ELSE layer
             desc  == IF outfitSpec.description = "long"
                      THEN DoubleAdd(cam, Double005) ELSE cam
         IN  MathMin(desc, Double100)

\* a calculateQualityScore whose last check has score = +0.05 for
\* score += 0.05
calculateQualityScoreAssignsLast(outfitSpec) ==
    IF outfitSpec.kind \in {"undefined", "null"} THEN Double000
    ELSE LET base  == Double070
             color == IF outfitSpec.color_scheme # "absent"
                      THEN DoubleAdd(base, Double010) ELSE base
             layer == IF outfitSpec.texture_layers = "nonempty"
                      THEN DoubleAdd(color, Double010) ELSE color
             cam   == IF outfitSpec.camera = "present"
                      THEN DoubleAdd(layer, Double005) ELSE layer
             desc  == IF outfitSpec.description = "long" THEN Double005 ELSE cam
         IN  MathMin(desc, Double100)

\* calculateQualityScore: score starts at 0.7 and each check that holds adds
\* to it, in the order of the code; a texture_layers that is no array has
\* no length above 0
calculateQualityScore(outfitSpec) ==
    IF outfitSpec.kind \in {"undefined", "null"} THEN Double000
    ELSE LET base  == Double070
             color == IF outfitSpec.color_scheme # "absent"
                      THEN DoubleAdd(base, Double010) ELSE base
             layer == IF outfitSpec.texture_layers = "nonempty"
                      THEN DoubleAdd(color, Double010) ELSE color
             cam   == IF outfitSpec.camera = "present"
                      THEN DoubleAdd(layer, Double005) ELSE layer
             desc  == IF outfitSpec.description = "long"
                      THEN DoubleAdd(cam, Double005) ELSE cam
         IN  MathMin(desc, Double100)

\* outfitSpec.description && outfitSpec.description.length > 50, as the
\* description of a JsonObject: n is the length, -1 without a description
DescriptionKind(n) ==
    IF n < 0 THEN "absent" ELSE IF n > 50 THEN "long" ELSE "short"

\* the lengths of description tried: none, "", 50 and 51 characters
DescriptionLengths == {-1, 0, 50, 51}

\* the values calculateQualityScore is tried on
ScoreInputs ==
    { <<JsonObject(cam, sty, tex, col, DescriptionKind(n)), n>> :
        cam \in {"absent", "present"}, sty \in {"absent", "present"},
        tex \in {"absent", "notarray", "empty", "nonempty"},
        col \in {"absent", "partial", "badhex", "valid"},
        n \in DescriptionLengths }
    \cup {<<NoSpec, -1>>, <<JsonNull, -1>>}

\* calculateQualityScore(scoreSpec) is called and returns
ScoreCall ==
    /\ scorePc = "idle"
    /\ qualityScore' = calculateQualityScore(scoreSpec)
    /\ scorePc' = "returned"
    /\ UNCHANGED <<scoreSpec, scoreDescLen>>
    /\ UNCHANGED scoreFrame

\* calculateQualityScore is called on another value
ScoreAgain(in) ==
    /\ scorePc = "returned"
    /\ scoreSpec' = in[1]
    /\ scoreDescLen' = in[2]
    /\ qualityScore' = calculateQualityScore(in[1])
    /\ UNCHANGED scorePc
    /\ UNCHANGED scoreFrame

ScoreStart ==
    /\ \E in \in ScoreInputs : scoreSpec = in[1] /\ scoreDescLen = in[2]
    /\ scorePc = "idle"
    /\ qualityScore = Double000

\* the scorer where nothing calls it by itself
ScoreUnused ==
    /\ scoreSpec = NoSpec
    /\ scoreDescLen = -1
    /\ scorePc = "idle"
    /\ qualityScore = Double000

\* JSON.stringify(outfitSpec).length: the text parsed and the attached
\* fibo_structured_params
StringifiedLength(outfitSpec) == TextLength(outfitSpec) + 330

\* createTelemetry
createTelemetry(req, success, outfitSpec) ==
    GenerationTelemetry(
        EstimateTokens(IF req.input.kind = "string" THEN Len(req.input.text)
                       ELSE Len("voice_input")),
        IF outfitSpec.kind # "undefined"
            THEN EstimateTokens(StringifiedLength(outfitSpec)) ELSE 0,
        IF outfitSpec.camera = "present" THEN "angle" ELSE "undefined",
        success, TRUE, calculateQualityScore(outfitSpec), req.user_id,
        "outfit_generation")

\* an errorTelemetry that estimates the tokens of the input
errorTelemetryEstimated(req) ==
    GenerationTelemetry(EstimateTokens(Len(req.input.text)), 0, "undefined",
                        FALSE, FALSE, Double000, req.user_id, "outfit_generation")

\* errorTelemetry of the catch block of processUserRequest
errorTelemetry(req) ==
    GenerationTelemetry(0, 0, "undefined", FALSE, FALSE, Double000, req.user_id,
                        "outfit_generation")

UnifiedResponse(spec, url, hasVoice, text, tel) ==
    [outfit_spec |-> spec, image_url |-> url, voice_response |-> hasVoice,
     text_response |-> text, telemetry |-> tel]

NoResponse ==
    UnifiedResponse(NoSpec, "undefined", FALSE, <<>>,
                    GenerationTelemetry(0, 0, "undefined", FALSE, FALSE, Double000,
                                        "undefined", "none"))

\* a dispatch on the tag alone
DispatchByTag(req) ==
    IF req.input_type = "voice" THEN "voice" ELSE "text"

\* the test of processUserRequest that picks the sub-pipeline
Dispatch(req) ==
    IF req.input_type = "voice" /\ req.input.kind = "buffer"
    THEN "voice" ELSE "text"

\* the answers of the model endpoint to a request of generateFIBOOutfit
FIBOFullObject == JsonObject("present", "present", "nonempty", "valid", "long")

FIBOAnsweredObjects ==
    {FIBOFullObject, JsonObject("absent", "absent", "absent", "absent", "absent")}
    \cup {[FIBOFullObject EXCEPT !.camera = "absent"]}
    \cup {[FIBOFullObject EXCEPT !.style_parameters = "absent"]}
    \cup {[FIBOFullObject EXCEPT !.texture_layers = t] : t \in {"absent", "notarray", "empty"}}
    \cup {[FIBOFullObject EXCEPT !.color_scheme = c] : c \in {"absent", "partial", "badhex"}}
    \cup {[FIBOFullObject EXCEPT !.description = d] : d \in {"absent", "short"}}

FIBOResponses ==
    {Rejected, UndefinedText, EmptyText, InvalidText(17)}
    \cup {JsonText(TextLength(j), j) : j \in FIBOAnsweredObjects \cup {JsonNull}}

IdleFIBOCall ==
    [pc |-> "idle", params |-> INITIAL_PARAMS, resp |-> Rejected,
     out |-> Throw("none"), requests |-> 0]

\* generateFIBOOutfit(params) up to await generateContent(...)
FIBOCallIssued(params) ==
    [IdleFIBOCall EXCEPT !.pc = "request", !.params = params, !.requests = 1]

\* generateFIBOOutfit is over
FIBOCallSettled(call, resp, out) ==
    [call EXCEPT !.pc = IF out.ok THEN "returned" ELSE "thrown",
                 !.resp = resp, !.out = out]

NoOutcome == [status |-> "pending", response |-> NoResponse, error |-> "none"]

\* a catch block that throws again without a record of the failure
RouterCatchWithoutTelemetry(step, err) ==
    /\ stepErrors' = Append(stepErrors, [step |-> step, err |-> err])
    /\ caught' = err
    /\ UNCHANGED monitorVars
    /\ rpc' = "telemetryErr"

\* a step of the request threw err: the catch block of processUserRequest
\* runs to await streamLLMTelemetry(errorTelemetry)
RouterCatch(step, err) ==
    /\ stepErrors' = Append(stepErrors, [step |-> step, err |-> err])
    /\ caught' = err
    /\ streamLLMTelemetry(errorTelemetry(request))
    /\ rpc' = "telemetryErr"

\* processUserRequest with the result of the sub-pipeline: the outfit event
\* when there is a spec, then the telemetry of the result
AfterPipeline(res) ==
    /\ result' = res
    /\ IF res.outfit_spec.kind # "undefined"
       THEN /\ streamCalls' = Append(streamCalls, "produceOutfitGeneration")
            /\ rpc' = "produceOutfit"
            /\ UNCHANGED monitorVars
       ELSE /\ streamLLMTelemetry(res.telemetry)
            /\ rpc' = "telemetryOk"
            /\ UNCHANGED streamCalls

\* processVoiceInput from the return of voiceConversation on
AfterVoice(text) ==
    /\ voiceText' = text
    /\ IF isOutfitGenerationRequest(text)
       THEN /\ fiboCall' = FIBOCallIssued(extractParamsFromText(text))
            /\ rpc' = "fibo"
            /\ UNCHANGED <<result, streamCalls>>
            /\ UNCHANGED monitorVars
       ELSE /\ AfterPipeline(UnifiedResponse(NoSpec, "undefined", TRUE, text,
                                             createTelemetry(request, TRUE, NoSpec)))
            /\ UNCHANGED fiboCall

\* processUserRequest(req) up to await produceUserInteraction(...)
ProcessUserRequest(req) ==
    /\ rpc \in {"idle", "returned", "thrown"}
    /\ served < MaxRequests
    /\ served' = served + 1
    /\ request' = req
    /\ rpc' = "interaction"
    /\ route' = "none"
    /\ fiboCall' = IdleFIBOCall
    /\ imageCall' = IdleImageCall
    /\ voiceText' = <<>>
    /\ result' = NoResponse
    /\ caught' = "none"
    /\ stepErrors' = <<>>
    /\ routerOut' = NoOutcome
    /\ streamCalls' = Append(streamCalls, "produceUserInteraction")
    /\ UNCHANGED <<kafkaLive, voiceEnabled, conversationHistory, pushLog>>
    /\ UNCHANGED monitorVars
    /\ UNCHANGED routerFrame

\* produceUserInteraction is over (it can fail only with a live producer);
\* the request is dispatched and runs to the first model request
InteractionSettle(ok) ==
    /\ rpc = "interaction"
    /\ ok \/ kafkaLive
    /\ IF ~ok
       THEN /\ RouterCatch("produceUserInteraction", "KafkaError")
            /\ UNCHANGED <<route, fiboCall, voiceText, result, streamCalls>>
       ELSE IF Dispatch(request) = "voice"
       THEN /\ route' = "voice"
            /\ UNCHANGED <<caught, stepErrors>>
            /\ IF voiceEnabled
               THEN /\ rpc' = "voiceReply"
                    /\ UNCHANGED <<fiboCall, voiceText, result, streamCalls>>
                    /\ UNCHANGED monitorVars
               ELSE AfterVoice(DisabledVoiceText)
       ELSE /\ route' = "text"
            /\ IF ~request.has_params /\ request.input.kind = "buffer"
               THEN /\ RouterCatch("processTextInput", "TypeError")
                    /\ UNCHANGED <<fiboCall, voiceText, result, streamCalls>>
               ELSE /\ fiboCall' = FIBOCallIssued(
                            IF request.has_params THEN request.params
                            ELSE extractParamsFromText(request.input.text))
                    /\ rpc' = "fibo"
                    /\ UNCHANGED <<caught, stepErrors, voiceText, result, streamCalls>>
                    /\ UNCHANGED monitorVars
    /\ UNCHANGED <<request, routerOut, served, imageCall>>
    /\ UNCHANGED <<kafkaLive, voiceEnabled, conversationHistory, pushLog>>
    /\ UNCHANGED routerFrame

\* the model request of generateResponse settles: voiceConversation runs to
\* its end, with updateConversationHistory, and processVoiceInput goes on
VoiceReplySettle(vresp) ==
    /\ rpc = "voiceReply"
    /\ conversationHistory' =
          updateConversationHistory(conversationHistory, request.user_id,
                                    MockTranscript, generateResponse(vresp),
                                    Now(request.user_id))
    /\ pushLog' = Pushed(pushLog, request.user_id, MockTranscript,
                        generateResponse(vresp), Now(request.user_id))
    /\ AfterVoice(generateResponse(vresp))
    /\ UNCHANGED <<request, route, caught, stepErrors, routerOut, served, imageCall>>
    /\ UNCHANGED <<kafkaLive, voiceEnabled>>
    /\ UNCHANGED routerFrame

\* the model request of generateFIBOOutfit settles; with a spec the
\* sub-pipeline goes on to generateOutfitImage
FIBOSettle(resp) ==
    /\ rpc = "fibo"
    /\ LET out == generateFIBOOutfit(resp)
       IN  /\ fiboCall' = FIBOCallSettled(fiboCall, resp, out)
           /\ IF ~out.ok
              THEN /\ RouterCatch("generateFIBOOutfit", out.err)
                   /\ UNCHANGED imageCall
              ELSE /\ imageCall' = ImageCallIssued(out.val)
                   /\ IF imageCall'.pc = "thrown"
                      THEN RouterCatch("generateOutfitImage", imageCall'.err)
                      ELSE /\ rpc' = "image"
                           /\ UNCHANGED <<caught, stepErrors>>
                           /\ UNCHANGED monitorVars
    /\ UNCHANGED <<request, route, voiceText, result, routerOut, served>>
    /\ UNCHANGED serviceVars
    /\ UNCHANGED routerFrame

\* the image request settles and the sub-pipeline returns its result
RouterImageSettle(iresp) ==
    /\ rpc = "image"
    /\ imageCall.pc = "request"
    /\ imageCall' = ImageAfterResponse(imageCall, iresp)
    /\ IF imageCall'.pc = "thrown"
       THEN /\ RouterCatch("generateOutfitImage", imageCall'.err)
            /\ UNCHANGED <<result, streamCalls>>
       ELSE /\ AfterPipeline(
                 UnifiedResponse(fiboCall.out.val, imageCall'.url,
                                 route = "voice",
                                 IF route = "voice" THEN voiceText
                                 ELSE <<fiboCall.out.val.description>>,
                                 createTelemetry(request, TRUE, fiboCall.out.val)))
            /\ UNCHANGED <<caught, stepErrors>>
    /\ UNCHANGED <<request, route, fiboCall, voiceText, routerOut, served>>
    /\ UNCHANGED <<kafkaLive, voiceEnabled, conversationHistory, pushLog>>
    /\ UNCHANGED routerFrame

\* produceOutfitGeneration is over
ProduceOutfitSettle(ok) ==
    /\ rpc = "produceOutfit"
    /\ ok \/ kafkaLive
    /\ IF ok
       THEN /\ streamLLMTelemetry(result.telemetry)
            /\ rpc' = "telemetryOk"
            /\ UNCHANGED <<caught, stepErrors>>
       ELSE RouterCatch("produceOutfitGeneration", "KafkaError")
    /\ UNCHANGED <<request, route, fiboCall, voiceText, result, routerOut, served,
                   imageCall>>
    /\ UNCHANGED serviceVars
    /\ UNCHANGED routerFrame

\* await streamLLMTelemetry(...) is over: of the try block, and the request
\* returns its result, or of the catch block, and it throws what it caught
RouterTelemetryDone ==
    /\ rpc \in {"telemetryOk", "telemetryErr"}
    /\ LET rejects == streamLLMTelemetryRejects(telemetry[Len(telemetry)])
       IN  IF rpc = "telemetryOk"
           THEN IF rejects
                THEN /\ RouterCatch("streamLLMTelemetry", "TelemetryError")
                     /\ UNCHANGED routerOut
                ELSE /\ rpc' = "returned"
                     /\ routerOut' = [status |-> "returned", response |-> result,
                                      error |-> "none"]
                     /\ UNCHANGED <<caught, stepErrors>>
                     /\ UNCHANGED monitorVars
           ELSE /\ rpc' = "thrown"
                /\ routerOut' = [status |-> "thrown", response |-> NoResponse,
                                 error |-> IF rejects THEN "TelemetryError"
                                           ELSE caught]
                /\ UNCHANGED <<caught, stepErrors>>
                /\ UNCHANGED monitorVars
    /\ UNCHANGED <<request, route, fiboCall, voiceText, result, served, imageCall>>
    /\ UNCHANGED serviceVars
    /\ UNCHANGED routerFrame

RouterStart ==
    /\ request = UnifiedRequest("user_123", BufferInput, "voice", FALSE)
    /\ rpc = "idle"
    /\ route = "none"
    /\ fiboCall = IdleFIBOCall
    /\ voiceText = <<>>
    /\ result = NoResponse
    /\ caught = "none"
    /\ stepErrors = <<>>
    /\ routerOut = NoOutcome
    /\ served = 0

-----------------------------------------------------------------------------
(* traffic-generator *)

MaxTraffic == 2

\* a scenario of CONFIG.scenarios under its key; errorRate, qualityScore and
\* qualityVariance in hundredths, tokenMultiplier 0 where there is none
Scenario(key, rate, latency, quality, variance, multiplier) ==
    [key |-> key, errorRate |-> rate, avgLatency |-> latency,
     qualityScore |-> quality, qualityVariance |-> variance,
     tokenMultiplier |-> multiplier]

CONFIG ==
    { Scenario(<<"n", "o", "r", "m", "a", "l">>, 1, 2000, 85, 10, 0),
      Scenario(<<"p", "e", "r", "f", "o", "r", "m", "a", "n", "c", "e">>, 2, 6000, 85, 5, 0),
      Scenario(<<"q", "u", "a", "l", "i", "t", "y">>, 1, 2000, 65, 5, 0),
      Scenario(<<"t", "o", "k", "e", "n", "S", "p", "i", "k", "e">>, 1, 2000, 85, 10, 5),
      Scenario(<<"h", "i", "g", "h", "E", "r", "r", "o", "r", "s">>, 8, 2000, 85, 10, 0) }

\* CONFIG.scenarios[key] || CONFIG.scenarios.normal
ConfigOf(key) ==
    IF \E c \in CONFIG : c.key = key
    THEN CHOOSE c \in CONFIG : c.key = key
    ELSE CHOOSE c \in CONFIG : c.key = <<"n", "o", "r", "m", "a", "l">>

\* the keys of the local scenarios of runIncidentScenario
IncidentInfoKeys ==
    { <<"p", "e", "r", "f", "o", "r", "m", "a", "n", "c", "e">>, <<"q", "u", "a", "l", "i", "t", "y">>,
      <<"t", "o", "k", "e", "n", "S", "p", "i", "k", "e">>,
      <<"h", "i", "g", "h", "E", "r", "r", "o", "r", "s">> }

\* the incidents main knows
IncidentArguments ==
    << <<"p", "e", "r", "f", "o", "r", "m", "a", "n", "c", "e">>, <<"q", "u", "a", "l", "i", "t", "y">>,
       <<"t", "o", "k", "e", "n", "-", "s", "p", "i", "k", "e">>,
       <<"h", "i", "g", "h", "-", "e", "r", "r", "o", "r", "s">> >>

AllIncidents == <<"a", "l", "l", "-", "i", "n", "c", "i", "d", "e", "n", "t", "s">>

\* what the script can be started with
Arguments ==
    { <<>>, <<"n", "o", "r", "m", "a", "l">>, AllIncidents, <<"d", "e", "m", "o">> }
    \cup { IncidentArguments[k] : k \in 1..Len(IncidentArguments) }

\* s.replace(pattern, replacement) for a pattern of one character: the first
\* occurrence is replaced
Replace(s, pattern, replacement) ==
    IF \E k \in 1..Len(s) : s[k] = pattern
    THEN LET k == CHOOSE n \in 1..Len(s) :
                      s[n] = pattern /\ \A m \in 1..(n - 1) : s[m] # pattern
         IN  SubSeq(s, 1, k - 1) \o replacement \o SubSeq(s, k + 1, Len(s))
    ELSE s

\* the argument of new TrafficGenerator(...) and of runIncidentScenario(...)
IncidentKey(incident) == Replace(incident, "-", <<>>)

\* new TrafficGenerator(scenario)
TrafficGenerator(scenario) ==
    [scenario |-> scenario, config |-> ConfigOf(scenario),
     requestCount |-> 0, errorCount |-> 0]

NoGenerator == TrafficGenerator(<<>>)

CAMERA_ANGLES ==
    <<"hero_shot", "three_quarter", "full_body", "close_up", "low_angle_hero">>

\* total requests of run(durationMinutes, requestsPerMinute), cut at MaxTraffic
TotalRequests(durationMinutes, requestsPerMinute) ==
    Min(durationMinutes * requestsPerMinute, MaxTraffic)

\* the sixteenths randomWithVariance(qualityScore, qualityVariance) can give,
\* between 0 and 1
QualityDraws(config) ==
    { k \in 0..16 :
        /\ (config.qualityScore - config.qualityVariance) * 16 <= k * 100
        /\ k * 100 < (config.qualityScore + config.qualityVariance) * 16 }

\* k sixteenths as a double
Sixteenths(k) == FromParts(k * 8192, 0, 0)

\* the record generateRequest forwards: quality_score is 0 when shouldFail
RequestTelemetry(config, shouldFail, k, baseIn, baseOut, cameraAngle, user) ==
    LET tokenMultiplier == IF config.tokenMultiplier # 0
                           THEN config.tokenMultiplier ELSE 1
    IN  GenerationTelemetry(baseIn * tokenMultiplier, baseOut * tokenMultiplier,
                            cameraAngle, ~shouldFail, TRUE,
                            IF shouldFail THEN Double000 ELSE Sixteenths(k),
                            user, "outfit_generation")

NoRecord ==
    GenerationTelemetry(0, 0, "undefined", FALSE, FALSE, Double000, "undefined", "none")

\* generator.runIncidentScenario(key, durationMinutes) up to its first await:
\* scenarioInfo.description throws when scenarios[key] is undefined
RunIncidentScenario(incident, durationMinutes) ==
    /\ generator' = TrafficGenerator(IncidentKey(incident))
    /\ IF IncidentKey(incident) \in IncidentInfoKeys
       THEN /\ tgPc' = "run"
            /\ tgLeft' = TotalRequests(durationMinutes, 40)
       ELSE /\ tgPc' = "fatal"
            /\ tgLeft' = 0

\* main, up to its first await
Main ==
    /\ tgPc = "idle"
    /\ LET scenario == IF scenarioArg # <<>> THEN scenarioArg ELSE <<"n", "o", "r", "m", "a", "l">>
       IN  IF scenario = AllIncidents
           THEN /\ incidents' = IncidentArguments
                /\ RunIncidentScenario(IncidentArguments[1], 2)
           ELSE IF \E k \in 1..Len(IncidentArguments) : IncidentArguments[k] = scenario
           THEN /\ RunIncidentScenario(scenario, 5)
                /\ UNCHANGED incidents
           ELSE /\ generator' = TrafficGenerator(scenario)
                /\ tgPc' = "run"
                /\ tgLeft' = TotalRequests(5, 30)
                /\ UNCHANGED incidents
    /\ UNCHANGED <<scenarioArg, tgRuns, tgRecord>>
    /\ UNCHANGED trafficFrame

\* an iteration of run: generateRequest, up to the delay
GenerateRequest(shouldFail, k, baseIn, baseOut, cameraAngle, user) ==
    /\ tgPc = "run"
    /\ tgLeft > 0
    /\ generator' =
          [generator EXCEPT !.requestCount = @ + 1,
                            !.errorCount = IF shouldFail THEN @ + 1 ELSE @]
    /\ tgRecord' = RequestTelemetry(generator.config, shouldFail, k, baseIn,
                                    baseOut, cameraAngle, user)
    /\ tgPc' = "delay"
    /\ UNCHANGED <<scenarioArg, incidents, tgLeft, tgRuns>>
    /\ UNCHANGED trafficFrame

\* the delay of an iteration is over: the next iteration, or run is over
\* and main goes on
AfterDelay ==
    /\ tgPc = "delay"
    /\ tgLeft' = tgLeft - 1
    /\ IF tgLeft' > 0
       THEN /\ tgPc' = "run"
            /\ UNCHANGED tgRuns
       ELSE /\ tgRuns' = Append(tgRuns, generator)
            /\ tgPc' = IF incidents # <<>> THEN "pause" ELSE "done"
    /\ UNCHANGED <<scenarioArg, generator, incidents, tgRecord>>
    /\ UNCHANGED trafficFrame

\* the pause after an incident of all-incidents is over
AfterPause ==
    /\ tgPc = "pause"
    /\ incidents' = Tail(incidents)
    /\ IF incidents' = <<>>
       THEN /\ tgPc' = "done"
            /\ UNCHANGED <<generator, tgLeft>>
       ELSE RunIncidentScenario(incidents'[1], 2)
    /\ UNCHANGED <<scenarioArg, tgRuns, tgRecord>>
    /\ UNCHANGED trafficFrame

TrafficStart ==
    /\ scenarioArg \in Arguments
    /\ tgPc = "idle"
    /\ generator = NoGenerator
    /\ incidents = <<>>
    /\ tgLeft = 0
    /\ tgRuns = <<>>
    /\ tgRecord = NoRecord

\* the script where it does not run
TrafficUnused ==
    /\ scenarioArg = <<>>
    /\ tgPc = "idle"
    /\ generator = NoGenerator
    /\ incidents = <<>>
    /\ tgLeft = 0
    /\ tgRuns = <<>>
    /\ tgRecord = NoRecord

-----------------------------------------------------------------------------
(* UnifiedAIFashionPlatform: initialize, shutdown; the monitor called directly *)

MaxInitCalls == 3

MaxTelemetry == 6

InitCall(pc, err) == [pc |-> pc, err |-> err]

\* a flag check that also stops a call while another is under way
PassesFlagCheckUnlessBusy ==
    /\ ~initialized
    /\ \A d \in Callers : icall[d].pc \notin {"initProducer", "initConsumer", "subscribe"}

\* if (this.initialized) return; is not taken
PassesFlagCheck == ~initialized

\* initialize() of caller c, up to its return or to await initProducer()
Initialize(c) ==
    /\ icall[c].pc \in {"idle", "returned", "thrown"}
    /\ istarted < MaxInitCalls
    /\ istarted' = istarted + 1
    /\ IF ~PassesFlagCheck
       THEN /\ icall' = [icall EXCEPT ![c] = InitCall("returned", "none")]
            /\ UNCHANGED <<initProducerCalls, producer>>
       ELSE /\ icall' = [icall EXCEPT ![c] = InitCall("initProducer", "none")]
            /\ initProducerCalls' = initProducerCalls + 1
            /\ producer' = IF kafkaEnabled THEN "created" ELSE producer
    /\ lastOp' = "initialize"
    /\ UNCHANGED <<initialized, initConsumerCalls, kafkaEnabled, consumer, sdPc>>
    /\ UNCHANGED <<ddEnabled, metricsBuffer, telemetry>>
    /\ UNCHANGED platformFrame

\* await initProducer() is over: initConsumer is invoked, or the catch block
\* throws the error again
AfterInitProducer(c, ok) ==
    /\ icall[c].pc = "initProducer"
    /\ ok \/ kafkaEnabled
    /\ IF ok
       THEN /\ icall' = [icall EXCEPT ![c] = InitCall("initConsumer", "none")]
            /\ producer' = IF kafkaEnabled THEN "connected" ELSE producer
            /\ initConsumerCalls' = initConsumerCalls + 1
            /\ consumer' = IF kafkaEnabled THEN "created" ELSE consumer
       ELSE /\ icall' = [icall EXCEPT ![c] = InitCall("thrown", "KafkaError")]
            /\ UNCHANGED <<producer, initConsumerCalls, consumer>>
    /\ UNCHANGED <<initialized, istarted, initProducerCalls, kafkaEnabled, sdPc>>
    /\ UNCHANGED monitorVars
    /\ UNCHANGED platformFrame

\* initConsumer: consumer.connect() is over, or the disabled pipeline has
\* returned and initialize sets its flag
AfterConsumerConnect(c, ok) ==
    /\ icall[c].pc = "initConsumer"
    /\ ok \/ kafkaEnabled
    /\ IF ~ok
       THEN /\ icall' = [icall EXCEPT ![c] = InitCall("thrown", "KafkaError")]
            /\ UNCHANGED <<initialized, consumer>>
       ELSE IF kafkaEnabled
       THEN /\ icall' = [icall EXCEPT ![c] = InitCall("subscribe", "none")]
            /\ consumer' = "connected"
            /\ UNCHANGED initialized
       ELSE /\ icall' = [icall EXCEPT ![c] = InitCall("returned", "none")]
            /\ initialized' = TRUE
            /\ UNCHANGED consumer
    /\ UNCHANGED <<istarted, initProducerCalls, initConsumerCalls, kafkaEnabled,
                   producer, sdPc>>
    /\ UNCHANGED monitorVars
    /\ UNCHANGED platformFrame

\* initConsumer: consumer.subscribe(...) is over; initialize sets its flag
\* and returns, or throws the error again
AfterSubscribe(c, ok) ==
    /\ icall[c].pc = "subscribe"
    /\ IF ok
       THEN /\ icall' = [icall EXCEPT ![c] = InitCall("returned", "none")]
            /\ initialized' = TRUE
       ELSE /\ icall' = [icall EXCEPT ![c] = InitCall("thrown", "KafkaError")]
            /\ UNCHANGED initialized
    /\ UNCHANGED <<istarted, initProducerCalls, initConsumerCalls, kafkaEnabled,
                   producer, consumer, sdPc>>
    /\ UNCHANGED monitorVars
    /\ UNCHANGED platformFrame

\* a shutdown that sets the flag back
FlagAfterShutdownReset(flag) == FALSE

\* what shutdown() leaves in this.initialized: it does not assign it
FlagAfterShutdown(flag) == flag

\* a shutdown that flushes the metrics of the monitor
BufferAfterShutdownFlushed(buffer) == <<>>

\* what shutdown() leaves in the metricsBuffer of the monitor: it calls
\* streaming.disconnect() alone
BufferAfterShutdown(buffer) == buffer

\* where disconnect() goes after the producer
AfterProducer == IF consumer # "null" THEN "consumer" ELSE "idle"

\* shutdown(), up to the first await of streaming.disconnect()
Shutdown ==
    /\ sdPc = "idle"
    /\ sdPc' = IF producer # "null" THEN "producer" ELSE AfterProducer
    /\ initialized' = FlagAfterShutdown(initialized)
    /\ metricsBuffer' = BufferAfterShutdown(metricsBuffer)
    /\ lastOp' = "shutdown"
    /\ UNCHANGED <<icall, istarted, initProducerCalls, initConsumerCalls,
                   kafkaEnabled, producer, consumer>>
    /\ UNCHANGED <<ddEnabled, telemetry>>
    /\ UNCHANGED platformFrame

\* await this.producer.disconnect() is over; a rejection ends shutdown
AfterProducerDisconnect(ok) ==
    /\ sdPc = "producer"
    /\ IF ok
       THEN /\ producer' = "disconnected"
            /\ sdPc' = AfterProducer
       ELSE /\ sdPc' = "idle"
            /\ UNCHANGED producer
    /\ UNCHANGED <<initialized, icall, istarted, initProducerCalls,
                   initConsumerCalls, kafkaEnabled, consumer>>
    /\ UNCHANGED monitorVars
    /\ UNCHANGED platformFrame

\* await this.consumer.disconnect() is over
AfterConsumerDisconnect(ok) ==
    /\ sdPc = "consumer"
    /\ consumer' = IF ok THEN "disconnected" ELSE consumer
    /\ sdPc' = "idle"
    /\ UNCHANGED <<initialized, icall, istarted, initProducerCalls,
                   initConsumerCalls, kafkaEnabled, producer>>
    /\ UNCHANGED monitorVars
    /\ UNCHANGED platformFrame

\* the records the monitor is given: of a failed request, of a request
\* without a spec, of a request with a full spec
TelemetryRecords ==
    LET req == UnifiedRequest("user_123", StringInput(<<"h", "e", "l", "l", "o">>),
                              "text", FALSE)
    IN  { errorTelemetry(req), createTelemetry(req, TRUE, NoSpec),
          createTelemetry(req, TRUE, FIBOFullObject) }

\* datadogMonitor.streamLLMTelemetry(data), called from anywhere
StreamLLMTelemetry(data) ==
    /\ Len(telemetry) < MaxTelemetry
    /\ streamLLMTelemetry(data)
    /\ UNCHANGED platformVars
    /\ UNCHANGED platformFrame

\* the other public methods of DatadogObservability
PublicQueries ==
    {"createDetectionRules", "createAIIncident", "correlateMetrics",
     "forecastMetric", "detectAnomalies"}

\* one of them is called: none reads or writes metricsBuffer
MonitorQuery(op) ==
    /\ lastOp' = op
    /\ UNCHANGED <<ddEnabled, metricsBuffer, telemetry>>
    /\ UNCHANGED platformVars
    /\ UNCHANGED platformFrame

PlatformStart ==
    /\ initialized = FALSE
    /\ icall = [c \in Callers |-> InitCall("idle", "none")]
    /\ istarted = 0
    /\ initProducerCalls = 0
    /\ initConsumerCalls = 0
    /\ kafkaEnabled \in BOOLEAN
    /\ producer = "null"
    /\ consumer = "null"
    /\ sdPc = "idle"

\* the platform where initialize and shutdown are not called
PlatformUnused ==
    /\ initialized = FALSE
    /\ icall = [c \in Callers |-> InitCall("idle", "none")]
    /\ istarted = 0
    /\ initProducerCalls = 0
    /\ initConsumerCalls = 0
    /\ kafkaEnabled = FALSE
    /\ producer = "null"
    /\ consumer = "null"
    /\ sdPc = "idle"

\* the platform after one initialize() that went through
PlatformInitialized ==
    /\ initialized = TRUE
    /\ icall = [c \in Callers |->
                  InitCall(IF c = "a" THEN "returned" ELSE "idle", "none")]
    /\ istarted = 1
    /\ initProducerCalls = 1
    /\ initConsumerCalls = 1
    /\ kafkaEnabled \in BOOLEAN
    /\ producer = (IF kafkaEnabled THEN "connected" ELSE "null")
    /\ consumer = (IF kafkaEnabled THEN "connected" ELSE "null")
    /\ sdPc = "idle"

-----------------------------------------------------------------------------
(* generateOutfitSpecification and generateFIBOOutfit, called directly *)

MaxGenCalls == 2

\* generateOutfitSpecification(params), the call before it over
GenerateOutfitSpecification(params) ==
    /\ specCall.pc \in {"idle", "returned", "thrown"}
    /\ Len(telemetry) < MaxGenCalls
    /\ specCall' = SpecCallIssued(params)
    /\ UNCHANGED <<imageCall, monitorVars, uiVars>>
    /\ UNCHANGED uiFrame

\* await streamLLMTelemetry(...) in generateOutfitSpecification is over and
\* the function returns or throws
GenerateOutfitSpecificationEnds ==
    /\ specCall.pc = "telemetry"
    /\ IF streamLLMTelemetryRejects(LastForwarded(specCall))
       THEN IF specCall.block = "try"
            THEN /\ specCall' = SpecAfterTelemetryThrew(specCall)
                 /\ streamLLMTelemetry(LastForwarded(specCall'))
            ELSE /\ specCall' = SpecSettled(specCall, Throw("TelemetryError"))
                 /\ UNCHANGED monitorVars
       ELSE /\ specCall' = SpecSettled(specCall, specCall.out)
            /\ UNCHANGED monitorVars
    /\ UNCHANGED <<imageCall, uiVars>>
    /\ UNCHANGED uiFrame

\* generateFIBOOutfit(params), the call before it over
GenerateFIBOOutfit(params) ==
    /\ fiboCall.pc \in {"idle", "returned", "thrown"}
    /\ fiboCall' = FIBOCallIssued(params)
    /\ UNCHANGED <<request, rpc, route, voiceText, result, caught, stepErrors,
                   routerOut, served>>
    /\ UNCHANGED <<monitorVars, genVars, serviceVars>>
    /\ UNCHANGED routerFrame

\* the request of generateFIBOOutfit settles and the function returns or
\* throws
GenerateFIBOOutfitEnds(resp) ==
    /\ fiboCall.pc = "request"
    /\ fiboCall' = FIBOCallSettled(fiboCall, resp, generateFIBOOutfit(resp))
    /\ UNCHANGED <<request, rpc, route, voiceText, result, caught, stepErrors,
                   routerOut, served>>
    /\ UNCHANGED <<monitorVars, genVars, serviceVars>>
    /\ UNCHANGED routerFrame

-----------------------------------------------------------------------------
(* Specifications *)

\* a generateFIBOBatch call
BatchInit ==
    /\ BatchStart /\ MonitorUnused /\ GenStart /\ UIStart /\ ServiceUnused /\ RouterStart
    /\ ScoreUnused /\ VoiceStart
    /\ TrafficUnused
    /\ PlatformUnused

BatchNext ==
    \/ BatchCall
    \/ \E c \in 1..Len(calls) : \E resp \in BatchResponses : RequestSettle(c, resp)
    \/ BatchResume

BatchSpec == BatchInit /\ [][BatchNext]_vars

\* the UI workflow: generateOutfitSpecification, then generateOutfitImage
UIInit ==
    /\ UIStart /\ MonitorStart /\ GenStart /\ ServiceUnused /\ RouterStart
    /\ BatchUnused /\ ScoreUnused /\ VoiceStart
    /\ TrafficUnused
    /\ PlatformUnused

UINext ==
    \/ \E p \in FormParams : SetParams(p)
    \/ HandleGenerate
    \/ \E resp \in SpecResponses : SpecRequestSettle(resp)
    \/ SpecTelemetryDone
    \/ \E iresp \in ImageResponses : ImageRequestSettle(iresp)

UISpec == UIInit /\ [][UINext]_vars

\* requests given to processUserRequest, one after another
RouterInit ==
    /\ RouterStart /\ ServiceStart /\ MonitorStart /\ GenStart /\ UIStart
    /\ BatchUnused /\ ScoreUnused /\ VoiceStart
    /\ TrafficUnused
    /\ PlatformUnused

RouterNext ==
    \/ \E req \in Requests : ProcessUserRequest(req)
    \/ \E ok \in BOOLEAN : InteractionSettle(ok)
    \/ \E vresp \in VoiceReplies : VoiceReplySettle(vresp)
    \/ \E resp \in FIBOResponses : FIBOSettle(resp)
    \/ \E iresp \in ImageResponses : RouterImageSettle(iresp)
    \/ \E ok \in BOOLEAN : ProduceOutfitSettle(ok)
    \/ RouterTelemetryDone

RouterSpec == RouterInit /\ [][RouterNext]_vars

\* calculateQualityScore, called on one value after another
ScoreInit ==
    /\ ScoreStart /\ BatchUnused /\ MonitorUnused /\ GenStart /\ UIStart
    /\ ServiceUnused /\ RouterStart /\ VoiceStart
    /\ TrafficUnused
    /\ PlatformUnused

ScoreNext ==
    \/ ScoreCall
    \/ \E in \in ScoreInputs : ScoreAgain(in)

ScoreSpec == ScoreInit /\ [][ScoreNext]_vars

\* voiceConversation, called by the callers
VoiceInit ==
    /\ VoiceStart /\ ServiceStart /\ ~kafkaLive
    /\ BatchUnused /\ MonitorUnused /\ GenStart /\ UIStart /\ RouterStart
    /\ ScoreUnused
    /\ TrafficUnused
    /\ PlatformUnused

VoiceNext ==
    \/ \E c \in Callers : \E u \in Users : VoiceConversation(c, u)
    \/ \E c \in Callers : AfterSpeechToText(c)
    \/ \E c \in Callers : \E vresp \in CallerReplies : AfterGenerateResponse(c, vresp)
    \/ \E c \in Callers : AfterTextToSpeech(c)

VoiceSpec == VoiceInit /\ [][VoiceNext]_vars

\* generateOutfitSpecification and generateFIBOOutfit, called directly
GenInit ==
    /\ GenStart /\ MonitorStart /\ RouterStart /\ UIStart /\ ServiceUnused
    /\ BatchUnused /\ ScoreUnused /\ VoiceStart
    /\ TrafficUnused
    /\ PlatformUnused

GenNext ==
    \/ \E p \in FormParams : GenerateOutfitSpecification(p)
    \/ \E resp \in SpecResponses : SpecRequestSettle(resp)
    \/ GenerateOutfitSpecificationEnds
    \/ \E p \in FormParams : GenerateFIBOOutfit(p)
    \/ \E resp \in FIBOResponses : GenerateFIBOOutfitEnds(resp)

GenSpec == GenInit /\ [][GenNext]_vars

\* the traffic-generator script, started with an argument
TrafficInit ==
    /\ TrafficStart /\ BatchUnused /\ MonitorUnused /\ GenStart /\ UIStart
    /\ ServiceUnused /\ RouterStart /\ ScoreUnused /\ VoiceStart
    /\ PlatformUnused

TrafficNext ==
    \/ Main
    \/ \E shouldFail \in BOOLEAN : \E k \in QualityDraws(generator.config) :
       \E baseIn \in {150, 249} : \E baseOut \in {300, 499} :
       \E a \in 1..Len(CAMERA_ANGLES) : \E user \in {"user_0", "user_99"} :
          GenerateRequest(shouldFail, k, baseIn, baseOut, CAMERA_ANGLES[a], user)
    \/ AfterDelay
    \/ AfterPause

TrafficSpec == TrafficInit /\ [][TrafficNext]_vars

\* the requests that processUserRequest gives to processTextInput
TextRequests == { req \in Requests : Dispatch(req) = "text" }

\* the two workflows that generate a specification and then an image: a run
\* of handleGenerate, and after it a text request to processUserRequest
WorkflowInit ==
    /\ UIStart /\ RouterStart /\ ServiceStart /\ MonitorStart /\ GenStart
    /\ BatchUnused /\ ScoreUnused /\ VoiceStart
    /\ TrafficUnused
    /\ PlatformUnused

WorkflowNext ==
    \/ served = 0 /\ runs = 0 /\ HandleGenerate
    \/ \E resp \in SpecResponses : SpecRequestSettle(resp)
    \/ SpecTelemetryDone
    \/ \E iresp \in ImageResponses : ImageRequestSettle(iresp)
    \/ upc = "idle" /\ served = 0 /\ \E req \in TextRequests : ProcessUserRequest(req)
    \/ \E ok \in BOOLEAN : InteractionSettle(ok)
    \/ \E resp \in FIBOResponses : FIBOSettle(resp)
    \/ \E iresp \in ImageResponses : RouterImageSettle(iresp)
    \/ \E ok \in BOOLEAN : ProduceOutfitSettle(ok)
    \/ RouterTelemetryDone

WorkflowSpec == WorkflowInit /\ [][WorkflowNext]_vars

\* every function that asks the model for a specification: a
\* generateFIBOBatch call, or, where there is no batch, direct calls of
\* generateOutfitSpecification and generateFIBOOutfit
RequestInit ==
    /\ BatchStart /\ GenStart /\ MonitorStart /\ RouterStart /\ UIStart
    /\ ServiceUnused /\ ScoreUnused /\ VoiceStart
    /\ TrafficUnused
    /\ PlatformUnused

RequestNext ==
    \/ BatchCall
    \/ \E c \in 1..Len(calls) : \E resp \in BatchResponses : RequestSettle(c, resp)
    \/ BatchResume
    \/ paramsArray = <<>> /\ \E p \in FormParams : GenerateOutfitSpecification(p)
    \/ \E resp \in SpecResponses : SpecRequestSettle(resp)
    \/ GenerateOutfitSpecificationEnds
    \/ paramsArray = <<>> /\ \E p \in FormParams : GenerateFIBOOutfit(p)
    \/ \E resp \in FIBOResponses : GenerateFIBOOutfitEnds(resp)

RequestSpec == RequestInit /\ [][RequestNext]_vars

\* a generateFIBOBatch call whose requests all settle in the end: the event
\* loop resumes the call when its Promise.all is settled
SettleOf(c) ==
    /\ c \in 1..Len(calls)
    /\ \E resp \in BatchResponses : RequestSettle(c, resp)

BatchLiveSpec ==
    /\ BatchInit
    /\ [][BatchNext]_vars
    /\ WF_vars(BatchResume)
    /\ \A c \in 1..(MaxBatch + 1) : WF_vars(SettleOf(c))

\* the monitor of an initialized platform: telemetry, the other public
\* methods, shutdown
MonitorInit ==
    /\ MonitorStart /\ PlatformInitialized
    /\ BatchUnused /\ GenStart /\ UIStart /\ ServiceUnused /\ RouterStart
    /\ ScoreUnused /\ VoiceStart /\ TrafficUnused

MonitorNext ==
    \/ \E data \in TelemetryRecords : StreamLLMTelemetry(data)
    \/ \E op \in PublicQueries : MonitorQuery(op)
    \/ Shutdown
    \/ \E ok \in BOOLEAN : AfterProducerDisconnect(ok)
    \/ \E ok \in BOOLEAN : AfterConsumerDisconnect(ok)

MonitorSpec == MonitorInit /\ [][MonitorNext]_vars

\* initialize and shutdown, called by the callers
PlatformInit ==
    /\ PlatformStart /\ MonitorUnused
    /\ BatchUnused /\ GenStart /\ UIStart /\ ServiceUnused /\ RouterStart
    /\ ScoreUnused /\ VoiceStart /\ TrafficUnused

PlatformNext ==
    \/ \E c \in Callers : Initialize(c)
    \/ \E c \in Callers : \E ok \in BOOLEAN : AfterInitProducer(c, ok)
    \/ \E c \in Callers : \E ok \in BOOLEAN : AfterConsumerConnect(c, ok)
    \/ \E c \in Callers : \E ok \in BOOLEAN : AfterSubscribe(c, ok)
    \/ Shutdown
    \/ \E ok \in BOOLEAN : AfterProducerDisconnect(ok)
    \/ \E ok \in BOOLEAN : AfterConsumerDisconnect(ok)

PlatformSpec == PlatformInit /\ [][PlatformNext]_vars

-----------------------------------------------------------------------------
(* generateFIBOBatch: properties *)

\* the place in paramsArray of the request that call c serves
PositionOf(c) == CHOOSE j \in 1..Len(paramsArray) : paramsArray[j] = calls[c].params

\* the chunk, counted from 0, of the request that call c serves
ChunkOf(c) == (PositionOf(c) - 1) \div batchSize

NumChunks == (Len(paramsArray) + batchSize - 1) \div batchSize

AnyFailed == \E c \in 1..Len(calls) : calls[c].st = "err"

\* the call that failed first
FirstFailed ==
    settled[CHOOSE m \in 1..Len(settled) :
                /\ calls[settled[m]].st = "err"
                /\ \A n \in 1..(m - 1) : calls[settled[n]].st # "err"]

\* C1: when generateFIBOBatch returns, it returns exactly one result per
\* request, and result j is the value the request for paramsArray[j] resolved
\* with, in whatever order the requests of a chunk completed.
C1_BatchPreservesInputOrder ==
    bpc = "returned" =>
        /\ Len(results) = Len(paramsArray)
        /\ \A j \in 1..Len(paramsArray) :
              \E c \in 1..Len(calls) :
                  /\ calls[c].params = paramsArray[j]
                  /\ calls[c].st = "ok"
                  /\ results[j] = calls[c].val

\* a batch of two chunks has returned, two requests of one chunk completed in
\* the reverse of their input order, and with different values
C1_Witness ==
    /\ bpc = "returned"
    /\ Len(paramsArray) > batchSize
    /\ \E m, n \in 1..Len(settled) :
          /\ m < n
          /\ settled[m] > settled[n]
          /\ ChunkOf(settled[m]) = ChunkOf(settled[n])
          /\ calls[settled[m]].val # calls[settled[n]].val

\* C2: a request of a chunk is in existence only when every request of every
\* earlier chunk has resolved, and the requests of one chunk are issued
\* together: when one of them has been issued, all of them have.
C2_ChunksStrictlySequential ==
    /\ \A c, d \in 1..Len(calls) :
          ChunkOf(d) < ChunkOf(c) => calls[d].st = "ok"
    /\ \A c \in 1..Len(calls) : \A j \in 1..Len(paramsArray) :
          (j - 1) \div batchSize = ChunkOf(c)
              => \E d \in 1..Len(calls) : calls[d].params = paramsArray[j]

\* the second chunk is running: one of its requests has resolved while
\* another is still in flight
C2_Witness ==
    \E c, d \in 1..Len(calls) :
        /\ ChunkOf(c) = 1
        /\ ChunkOf(d) = 1
        /\ calls[c].st = "inflight"
        /\ calls[d].st = "ok"

\* C3: once a request has failed, the batch call never returns: the only way
\* on is to throw the failure that came first, and no request of a later
\* chunk is ever issued.
C3_FailureAbortsBatch ==
    AnyFailed =>
        /\ bpc \in {"await", "thrown"}
        /\ bpc = "await" => (pall.st = "rejected" /\ pall.err = calls[FirstFailed].err)
        /\ bpc = "thrown" => bthrown = calls[FirstFailed].err
        /\ \A c \in 1..Len(calls) : ChunkOf(c) <= ChunkOf(FirstFailed)
        /\ Len(calls) <= (ChunkOf(FirstFailed) + 1) * batchSize

\* the batch threw in its second chunk, with results of the first chunk held
\* and a third chunk never started; two requests of the chunk failed, with
\* different errors
C3_Witness ==
    /\ bpc = "thrown"
    /\ Len(results) = batchSize
    /\ Len(calls) < Len(paramsArray)
    /\ \E c, d \in 1..Len(calls) :
          /\ calls[c].st = "err"
          /\ calls[d].st = "err"
          /\ calls[c].err # calls[d].err

\* C4: the chunks are consecutive slices of paramsArray, each of batchSize
\* requests but the last, which holds the 1 to batchSize that remain; a call
\* that returns has gone through ceil(N / batchSize) of them: 3, 3, 1 for a
\* batch of 7, and none, with no request issued, for an empty batch.
C4_ChunkPartition ==
    /\ Len(batches) <= NumChunks
    /\ \A k \in 1..Len(batches) :
          /\ Len(batches[k]) =
                IF k < NumChunks THEN batchSize
                ELSE Len(paramsArray) - batchSize * (NumChunks - 1)
          /\ Len(batches[k]) \in 1..batchSize
          /\ batches[k] = SubSeq(paramsArray, batchSize * (k - 1) + 1,
                                 batchSize * (k - 1) + Len(batches[k]))
    /\ bpc = "returned" => Len(batches) = NumChunks
    /\ (bpc = "returned" /\ Len(paramsArray) = 7)
          => [k \in 1..Len(batches) |-> Len(batches[k])] = <<3, 3, 1>>
    /\ Len(paramsArray) = 0
          => /\ calls = <<>>
             /\ bpc \in {"idle", "returned"}
             /\ results = <<>>

\* a batch of 7 has returned
C4_Witness ==
    /\ bpc = "returned"
    /\ Len(paramsArray) = 7
    /\ Len(calls) = 7

-----------------------------------------------------------------------------
(* geminiService: properties, under UISpec *)

\* generateOutfitImage never throws, whatever spec it is given.
C5_ImageNeverThrows == imageCall.pc # "thrown"

\* C5, amended: generateOutfitImage throws only while building its prompt,
\* a TypeError for a spec without camera, an array of texture_layers or both
\* colours, and before any request; once the request is issued it always
\* returns a string, the placeholder unless the response held inline data.
C5_ImageThrowsOnlyBuildingPrompt ==
    /\ imageCall.pc = "thrown"
          => /\ ~ImagePromptBuilds(imageCall.spec)
             /\ imageCall.requests = 0
             /\ imageCall.err = "TypeError"
    /\ imageCall.pc \in {"request", "returned"} => ImagePromptBuilds(imageCall.spec)
    /\ imageCall.pc = "returned"
          => imageCall.url =
                IF imageCall.resp = "inline" THEN DataUrl ELSE PlaceholderUrl

\* the model call of an image request rejected and the placeholder came back
C5_Witness ==
    /\ imageCall.pc = "returned"
    /\ imageCall.resp = "reject"
    /\ imageCall.url = PlaceholderUrl

\* the failure of the specification request that call stands at, if any
SpecFailed(call) ==
    /\ call.pc \in {"telemetry", "returned", "thrown"}
    /\ ~generateOutfitSpecificationTry(call.resp).ok

\* a failed generateOutfitSpecification forwards a record with
\* input_tokens = 0, output_tokens = 0, success = false, and throws.
C6_FailureTelemetryZeroTokens ==
    SpecFailed(specCall) =>
        /\ LastForwarded(specCall).input_tokens = 0
        /\ LastForwarded(specCall).output_tokens = 0
        /\ LastForwarded(specCall).success = FALSE
        /\ specCall.pc # "returned"

\* C6, amended: a failed generateOutfitSpecification forwards a record with
\* output_tokens = 0 and success = false whose input_tokens is the estimate
\* of the prompt, ceil(length / 4), which is never 0; it has forwarded it
\* when it throws, and it throws the error that made it fail.
C6_FailureTelemetryThenRethrow ==
    SpecFailed(specCall) =>
        /\ LastForwarded(specCall).input_tokens
              = EstimateTokens(PromptLength(specCall.params))
        /\ LastForwarded(specCall).input_tokens > 0
        /\ LastForwarded(specCall).output_tokens = 0
        /\ LastForwarded(specCall).success = FALSE
        /\ telemetry[Len(telemetry)] = LastForwarded(specCall)
        /\ specCall.pc # "returned"
        /\ specCall.out = generateOutfitSpecificationTry(specCall.resp)

\* the text of the response was not JSON: the call threw the SyntaxError
C6_Witness ==
    /\ specCall.pc = "thrown"
    /\ specCall.resp.kind = "invalid"
    /\ specCall.out.err = "SyntaxError"
    /\ ~telemetry[Len(telemetry)].success

\* C7: a generateOutfitSpecification call has forwarded nothing while its
\* request is pending and exactly one record when it settles, of success
\* when it returns and of failure when it throws; the forwarder has got one
\* record per call and no other.
C7_OneTelemetryRecordPerCall ==
    /\ Len(specCall.forwarded) <= 1
    /\ specCall.pc = "request" => specCall.forwarded = <<>>
    /\ specCall.pc \in {"returned", "thrown"}
          => /\ Len(specCall.forwarded) = 1
             /\ specCall.forwarded[1].success = (specCall.pc = "returned")
    /\ Len(telemetry) = runs - (IF specCall.pc = "request" THEN 1 ELSE 0)
    /\ specCall.pc \in {"telemetry", "returned", "thrown"}
          => telemetry[Len(telemetry)] = specCall.forwarded[1]

\* two calls are over, the first returned and the second threw: two records
C7_Witness ==
    /\ runs = 2
    /\ specCall.pc = "thrown"
    /\ Len(telemetry) = 2
    /\ telemetry[1].success
    /\ ~telemetry[2].success

\* C8: a response without text makes generateOutfitSpecification fail with
\* "No JSON returned", and the call goes on as for a rejected request: the
\* same record is forwarded, from the catch block, and the error is thrown.
C8_NoTextFailsLikeUpstream ==
    (/\ specCall.pc \in {"telemetry", "returned", "thrown"}
     /\ specCall.resp.kind \in {"undefined", "empty"})
        => LET upstream == SpecAfterResponse(SpecCallIssued(specCall.params),
                                             Rejected)
           IN  /\ specCall.out = Throw("No JSON returned")
               /\ specCall.pc # "returned"
               /\ specCall.forwarded = upstream.forwarded
               /\ specCall.block = upstream.block
               /\ ~LastForwarded(specCall).success
               /\ telemetry[Len(telemetry)] = LastForwarded(specCall)
               /\ upstream.out = Throw("UpstreamError")
               /\ specCall.pc = "thrown" => currentSpec = NoSpec

\* the response held an empty text and the call has thrown
C8_Witness ==
    /\ specCall.pc = "thrown"
    /\ specCall.resp.kind = "empty"
    /\ specCall.out.err = "No JSON returned"

-----------------------------------------------------------------------------
(* unifiedPlatform: properties, under RouterSpec *)

\* C9: when a step of processUserRequest has thrown, the request goes no
\* further than its catch block: the last record forwarded is the failure
\* record with zero tokens and the user of the request, and the request ends
\* by throwing the error of that step, with no response.
C9_FailureAbortsRequest ==
    /\ fiboCall.pc = "thrown"
          => stepErrors = <<[step |-> "generateFIBOOutfit", err |-> fiboCall.out.err]>>
    /\ imageCall.pc = "thrown"
          => stepErrors = <<[step |-> "generateOutfitImage", err |-> imageCall.err]>>
    /\ stepErrors # <<>>
          => /\ rpc \in {"telemetryErr", "thrown"}
             /\ Len(stepErrors) = 1
             /\ telemetry[Len(telemetry)].input_tokens = 0
             /\ telemetry[Len(telemetry)].output_tokens = 0
             /\ telemetry[Len(telemetry)].success = FALSE
             /\ telemetry[Len(telemetry)].user_id = request.user_id
             /\ Len(telemetry) = served
    /\ rpc = "thrown"
          => /\ stepErrors # <<>>
             /\ routerOut.status = "thrown"
             /\ routerOut.response = NoResponse
             /\ routerOut.error = stepErrors[1].err
    /\ rpc = "returned" => stepErrors = <<>>

\* a voice request whose specification generation failed has thrown
C9_Witness ==
    /\ rpc = "thrown"
    /\ route = "voice"
    /\ fiboCall.pc = "thrown"
    /\ routerOut.error = "No JSON returned from FIBO engine"
    /\ Len(request.input.text) = 0

\* every request tagged voice is handled by the voice sub-pipeline and every
\* request tagged text by the text sub-pipeline.
C10_DispatchByTag ==
    route # "none" => (route = "voice" <=> request.input_type = "voice")

\* C10, amended: the voice sub-pipeline handles the requests tagged voice
\* whose input is a Buffer; every other request, a voice one with a string
\* input too, is handled by the text sub-pipeline.
C10_DispatchByTagAndBuffer ==
    /\ route # "none"
          => (route = "voice"
                <=> (request.input_type = "voice" /\ request.input.kind = "buffer"))
    /\ rpc \in {"voiceReply", "fibo", "image", "produceOutfit", "telemetryOk", "returned"}
          => route # "none"
    /\ rpc = "voiceReply" => route = "voice"
    /\ rpc = "returned"
          => (routerOut.response.voice_response
                <=> (request.input_type = "voice" /\ request.input.kind = "buffer"))

\* a request tagged voice with a string input was answered by the text
\* sub-pipeline
C10_Witness ==
    /\ rpc = "returned"
    /\ request.input_type = "voice"
    /\ request.input.kind = "string"
    /\ route = "text"
    /\ ~routerOut.response.voice_response

-----------------------------------------------------------------------------
(* calculateQualityScore: properties, under ScoreSpec *)

\* the presence checks a value satisfies, as the claims word them
ChecksOf(spec, descLen) ==
    (IF spec.color_scheme # "absent" THEN {"color_scheme"} ELSE {})
    \cup (IF spec.texture_layers = "nonempty" THEN {"texture_layers"} ELSE {})
    \cup (IF spec.camera = "present" THEN {"camera"} ELSE {})
    \cup (IF descLen > 50 THEN {"description"} ELSE {})

\* 0.70 + 0.10 [color_scheme] + 0.10 [texture_layers] + 0.05 [camera]
\* + 0.05 [description], as a sum of doubles from left to right
SumOfIncrements(S) ==
    LET term(c, inc) == IF c \in S THEN inc ELSE Double000
    IN  DoubleAdd(DoubleAdd(DoubleAdd(DoubleAdd(Double070,
            term("color_scheme", Double010)), term("texture_layers", Double010)),
            term("camera", Double005)), term("description", Double005))

\* the same sum in hundredths, as a sum of reals
HundredthsOf(S) ==
    70 + (IF "color_scheme" \in S THEN 10 ELSE 0)
       + (IF "texture_layers" \in S THEN 10 ELSE 0)
       + (IF "camera" \in S THEN 5 ELSE 0)
       + (IF "description" \in S THEN 5 ELSE 0)

\* the double d is within 2^-53 of h hundredths: 100 d and h 2^57 differ by
\* at most 100 * 16
WithinRounding(d, h) ==
    LET scaled == FromParts(100 * d[1], 100 * d[2], 100 * d[3])
        target == <<h * 2^17, 0, 0>>
    IN  /\ DoubleLeq(scaled, FromParts(target[1], target[2], target[3] + 1600))
        /\ DoubleLeq(target, FromParts(scaled[1], scaled[2], scaled[3] + 1600))

\* C11: calculateQualityScore returns exactly 0 for an absent spec, and for
\* a present one min(1.0, 0.70 + 0.10 [color_scheme present] + 0.10
\* [texture_layers non-empty] + 0.05 [camera present] + 0.05 [description
\* longer than 50 characters]), the sum being one of doubles, within a
\* rounding of the real sum; the result lies in [0, 1] and is 0 or at
\* least 0.70.
C11_QualityScoreFormula ==
    scorePc = "returned" =>
        /\ scoreSpec.kind # "object" => qualityScore = Double000
        /\ scoreSpec.kind = "object" =>
              LET S == ChecksOf(scoreSpec, scoreDescLen)
              IN  /\ qualityScore = MathMin(Double100, SumOfIncrements(S))
                  /\ WithinRounding(qualityScore, Min(100, HundredthsOf(S)))
        /\ DoubleLeq(Double000, qualityScore)
        /\ DoubleLeq(qualityScore, Double100)
        /\ qualityScore = Double000 \/ DoubleLeq(Double070, qualityScore)

\* a spec with every field and a description of exactly 50 characters was
\* scored: the description does not count
C11_Witness ==
    /\ scorePc = "returned"
    /\ scoreSpec.kind = "object"
    /\ ChecksOf(scoreSpec, scoreDescLen) = {"color_scheme", "texture_layers", "camera"}
    /\ scoreDescLen = 50
    /\ qualityScore # Double100
    /\ DoubleLeq(Double070, qualityScore)

\* C12: when calculateQualityScore is given a spec that satisfies the checks
\* of the spec before it and more, its score is not below the score before;
\* and no score is above 1.0.
C12_QualityScoreMonotonic ==
    [][ /\ (/\ scorePc = "returned" /\ scorePc' = "returned"
            /\ scoreSpec.kind = "object" /\ scoreSpec'.kind = "object"
            /\ ChecksOf(scoreSpec, scoreDescLen)
                  \subseteq ChecksOf(scoreSpec', scoreDescLen'))
              => DoubleLeq(qualityScore, qualityScore')
        /\ DoubleLeq(qualityScore', Double100) ]_vars

\* a spec that satisfies all four checks was scored 1.0
C12_Witness ==
    /\ scorePc = "returned"
    /\ scoreSpec.kind = "object"
    /\ ChecksOf(scoreSpec, scoreDescLen)
          = {"color_scheme", "texture_layers", "camera", "description"}
    /\ qualityScore = Double100

-----------------------------------------------------------------------------
(* VoiceFashionAssistant: properties, under VoiceSpec *)

\* C13: after any voiceConversation calls on an enabled assistant, the
\* history of every user holds at most 10 exchanges, the 10 pushed last for
\* that user, in the order they were pushed, whatever calls there were
\* for other users.
C13_HistoryKeepsLastTen ==
    \A u \in Users :
        /\ Len(conversationHistory[u]) <= 10
        /\ conversationHistory[u] = LastN(pushLog[u], 10)

\* eleven exchanges were pushed for a user: the first is gone, the ten
\* after it are kept
C13_Witness ==
    \E u \in Users :
        /\ voiceEnabled
        /\ Len(pushLog[u]) = 11
        /\ Len(conversationHistory[u]) = 10
        /\ conversationHistory[u][1] = pushLog[u][2]
        /\ conversationHistory[u][10] = pushLog[u][11]

\* the exchanges pushed for the user of caller c's call between its read of
\* the history and its own update: those of the calls it overlapped with
OverlappedWrites(c) ==
    { k \in 1..Len(pushLog[vcall[c].user]) :
        /\ vcall[c].readAt < pushLog[vcall[c].user][k].timestamp
        /\ pushLog[vcall[c].user][k].timestamp < vcall[c].wroteAt }

\* the exchanges the history of u holds
Held(u) == { conversationHistory[u][k] : k \in 1..Len(conversationHistory[u]) }

\* when a call has updated the history, the exchanges that calls it
\* overlapped with pushed for the same user, after its read and before its
\* update, are missing from the history.
C14_EarlierUpdateDropped ==
    \A c \in Callers :
        (/\ vcall[c].pc = "returned" /\ 0 < vcall[c].wroteAt
         /\ vcall[c].wroteAt = Len(pushLog[vcall[c].user]))
            => \A k \in OverlappedWrites(c) :
                   pushLog[vcall[c].user][k] \notin Held(vcall[c].user)

\* C14, amended: calls for the same user can overlap at their awaits, but no
\* update is dropped: when a call has updated the history, the exchanges
\* pushed for its user after its read are all in the history with its own,
\* in the order the calls pushed them, but for those beyond the last 10.
C14_OverlappingUpdatesKept ==
    \A c \in Callers :
        (/\ vcall[c].pc = "returned" /\ 0 < vcall[c].wroteAt
         /\ vcall[c].wroteAt = Len(pushLog[vcall[c].user]))
            => LET u == vcall[c].user
                   n == Len(pushLog[u])
               IN  /\ pushLog[u][n].timestamp = vcall[c].wroteAt
                   /\ \A k \in OverlappedWrites(c) \cup {n} :
                          k > n - HistoryLimit
                              => \E j \in 1..Len(conversationHistory[u]) :
                                     /\ j = Len(conversationHistory[u]) - (n - k)
                                     /\ conversationHistory[u][j] = pushLog[u][k]

\* two calls for a user overlapped: a read the history, then b updated
\* it, then a did; the exchange of b is still in the history
C14_Witness ==
    /\ vcall["a"].pc = "returned" /\ vcall["b"].pc = "returned"
    /\ vcall["a"].user = vcall["b"].user
    /\ vcall["a"].wroteAt = Len(pushLog[vcall["a"].user])
    /\ vcall["a"].readAt < vcall["b"].wroteAt
    /\ vcall["b"].wroteAt < vcall["a"].wroteAt
    /\ \E k \in OverlappedWrites("a") :
          pushLog[vcall["a"].user][k] \in Held(vcall["a"].user)

-----------------------------------------------------------------------------
(* the two generators: properties, under GenSpec *)

\* a spec that conforms: layers that are there and two colours in hex
Conforms(spec) ==
    /\ spec.kind = "object"
    /\ spec.texture_layers = "nonempty"
    /\ spec.color_scheme = "valid"

\* C15: a call of generateOutfitSpecification or of generateFIBOOutfit that
\* returns, returns a spec with a non-empty texture_layers and with primary
\* and accent colours in 6-digit hex, whatever JSON text the endpoint sent.
C15_ReturnedSpecConforms ==
    /\ specCall.pc = "returned" => Conforms(specCall.out.val)
    /\ fiboCall.pc = "returned" => Conforms(fiboCall.out.val)

\* C15, amended: a call that returns, returns the value parsed from the
\* endpoint's text, unvalidated, so its texture_layers is non-empty and its
\* colours are hex only when the endpoint's JSON had them so.
\* generateOutfitSpecification returns any JSON object; generateFIBOOutfit
\* returns, with fibo_structured_params attached, any object that has camera,
\* style_parameters, texture_layers and both colours, and throws on the
\* others.
C15_ReturnedSpecIsParsedAnswer ==
    /\ specCall.pc = "returned"
          => /\ specCall.resp.kind = "json"
             /\ specCall.resp.json.kind = "object"
             /\ specCall.out.val = specCall.resp.json
             /\ Conforms(specCall.out.val) <=> Conforms(specCall.resp.json)
    /\ fiboCall.pc = "returned"
          => /\ fiboCall.resp.kind = "json"
             /\ fiboCall.out.val =
                   [fiboCall.resp.json EXCEPT !.fibo_structured_params = "attached"]
             /\ Conforms(fiboCall.out.val) <=> Conforms(fiboCall.resp.json)
    /\ fiboCall.pc \in {"returned", "thrown"} /\ fiboCall.resp.kind = "json"
          => (fiboCall.pc = "returned"
                <=> /\ fiboCall.resp.json.kind = "object"
                    /\ fiboCall.resp.json.camera = "present"
                    /\ fiboCall.resp.json.style_parameters = "present"
                    /\ fiboCall.resp.json.texture_layers # "absent"
                    /\ fiboCall.resp.json.color_scheme \in {"badhex", "valid"})

\* generateOutfitSpecification returned a spec without texture_layers and
\* generateFIBOOutfit one with no layer and colours that are not hex
C15_Witness ==
    /\ specCall.pc = "returned"
    /\ specCall.out.val.texture_layers = "absent"
    /\ fiboCall.pc = "returned"
    /\ fiboCall.out.val.texture_layers \in {"empty", "notarray"}

-----------------------------------------------------------------------------
(* traffic-generator: properties, under TrafficSpec *)

\* the keys of the configurations of the runs that were completed, in order
CompletedRuns == [k \in 1..Len(tgRuns) |-> tgRuns[k].config.key]

\* C16: the script runs the configuration its argument names, to completion:
\* it never ends in a fatal error, token-spike runs with the tokenSpike
\* configuration (token multiplier 5), high-errors with highErrors (error
\* rate 0.08), and all-incidents completes performance, quality, token-spike
\* and high-errors, in this order.
C16_ScenarioRunsNamedConfiguration ==
    /\ tgPc # "fatal"
    /\ (tgPc # "idle" /\ scenarioArg = <<"t", "o", "k", "e", "n", "-", "s", "p", "i", "k", "e">>)
          => /\ generator.config.key = <<"t", "o", "k", "e", "n", "S", "p", "i", "k", "e">>
             /\ generator.config.tokenMultiplier = 5
    /\ (tgPc # "idle" /\ scenarioArg = <<"h", "i", "g", "h", "-", "e", "r", "r", "o", "r", "s">>)
          => /\ generator.config.key = <<"h", "i", "g", "h", "E", "r", "r", "o", "r", "s">>
             /\ generator.config.errorRate = 8
    /\ (tgPc = "done" /\ scenarioArg = AllIncidents)
          => CompletedRuns = << <<"p", "e", "r", "f", "o", "r", "m", "a", "n", "c", "e">>,
                                <<"q", "u", "a", "l", "i", "t", "y">>,
                                <<"t", "o", "k", "e", "n", "S", "p", "i", "k", "e">>,
                                <<"h", "i", "g", "h", "E", "r", "r", "o", "r", "s">> >>

\* C17: a record with success = false that the program forwards carries no
\* quality_score, be it forwarded by generateRequest of the script or to the
\* monitor by generateOutfitSpecification and processUserRequest.
C17_FailedRecordHasNoScore ==
    /\ ~tgRecord.success => ~tgRecord.quality_defined
    /\ \A k \in 1..Len(telemetry) :
          ~telemetry[k].success => ~telemetry[k].quality_defined

-----------------------------------------------------------------------------
(* processUserRequest: the voice path, under RouterSpec *)

\* text holds one of the seven keywords, in capitals or not
ContainsKeyword(text) ==
    \E w \in Keywords : \E k \in 0..(Len(text) - Len(w)) :
        \A j \in 1..Len(w) : ToLowerChar(text[k + j]) = w[j]

\* voiceConversation has returned to processVoiceInput
VoiceAnswered == route = "voice" /\ rpc \notin {"interaction", "voiceReply"}

\* the produce... calls of the request under way
CallsOfRequest ==
    LET last == CHOOSE k \in 1..Len(streamCalls) :
                    /\ streamCalls[k] = "produceUserInteraction"
                    /\ \A m \in (k + 1)..Len(streamCalls) :
                          streamCalls[m] # "produceUserInteraction"
    IN  SubSeq(streamCalls, last + 1, Len(streamCalls))

\* C18: on the voice path generateFIBOOutfit is called exactly when the text
\* of the voice conversation holds one of the seven keywords, in whatever
\* case, and generateOutfitImage only after it returned; without a keyword
\* the response has no outfit_spec and no outfit-generation event is produced.
C18_VoiceGeneratesOnKeyword ==
    VoiceAnswered =>
        /\ fiboCall.requests > 0 <=> ContainsKeyword(voiceText)
        /\ imageCall.pc # "idle" => fiboCall.pc = "returned"
        /\ ~ContainsKeyword(voiceText) =>
              /\ imageCall.pc = "idle"
              /\ result.outfit_spec = NoSpec
              /\ \A k \in 1..Len(CallsOfRequest) :
                    CallsOfRequest[k] # "produceOutfitGeneration"
              /\ rpc = "returned" => routerOut.response.outfit_spec = NoSpec

\* a voice request returned an outfit for a text that holds a keyword in
\* capitals only
C18_Witness ==
    /\ VoiceAnswered
    /\ rpc = "returned"
    /\ ContainsKeyword(voiceText)
    /\ \A w \in Keywords : ~Includes(voiceText, w)
    /\ routerOut.response.outfit_spec.kind = "object"
    /\ routerOut.response.image_url # "undefined"

\* the telemetry of the requests so far: one record for each request that
\* is over or at its last await, a success record where the request returns
\* and a failure record where it throws
OneRecordPerRequest ==
    /\ rpc = "idle" => telemetry = <<>>
    /\ rpc \in {"interaction", "voiceReply", "fibo", "image", "produceOutfit"}
          => Len(telemetry) = served - 1
    /\ rpc \in {"telemetryOk", "returned"}
          => /\ Len(telemetry) = served
             /\ telemetry[Len(telemetry)] = result.telemetry
             /\ telemetry[Len(telemetry)].success
    /\ rpc \in {"telemetryErr", "thrown"}
          => /\ Len(telemetry) = served
             /\ ~telemetry[Len(telemetry)].success
    /\ routerOut.status = "returned" <=> rpc = "returned"
    /\ routerOut.status = "thrown" <=> rpc = "thrown"

\* C19: a processUserRequest call forwards exactly one telemetry record, and
\* as the last thing before it returns or throws again: a record with
\* success = true exactly when it returns a response, one with
\* success = false exactly when it throws.
C19_OneTelemetryRecordLast ==
    [][/\ OneRecordPerRequest
       /\ OneRecordPerRequest'
       /\ telemetry' # telemetry
             => /\ Len(telemetry') = Len(telemetry) + 1
                /\ rpc' \in {"telemetryOk", "telemetryErr"}
       /\ rpc = "telemetryOk"
             => /\ rpc' = "returned"
                /\ UNCHANGED <<monitorVars, serviceVars, imageCall>>
       /\ rpc = "telemetryErr"
             => /\ rpc' = "thrown"
                /\ UNCHANGED <<monitorVars, serviceVars, imageCall>>]_vars

\* a request threw after generateFIBOOutfit failed, with the one record of
\* the catch block
C19_Witness ==
    /\ rpc = "thrown"
    /\ fiboCall.pc = "thrown"
    /\ Len(telemetry) = 1
    /\ ~telemetry[1].success
    /\ telemetry[1] = errorTelemetry(request)

-----------------------------------------------------------------------------
(* specification first, image second: properties, under WorkflowSpec *)

\* C20: in handleGenerate and on the text path of processUserRequest the
\* request for the image is issued only when the specification generation of
\* the workflow has returned a spec, and for that spec; when the
\* specification generation fails, the workflow issues no image request.
C20_ImageOnlyAfterSpec ==
    /\ (runs > 0 /\ served = 0)
          => /\ imageCall.pc # "idle"
                   => /\ specCall.pc = "returned"
                      /\ imageCall.spec = specCall.out.val
             /\ specCall.pc # "returned"
                   => /\ imageCall.pc = "idle"
                      /\ imageCall.requests = 0
    /\ (served > 0 /\ route = "text")
          => /\ imageCall.pc # "idle"
                   => /\ fiboCall.pc = "returned"
                      /\ imageCall.spec = fiboCall.out.val
             /\ fiboCall.pc # "returned"
                   => /\ imageCall.pc = "idle"
                      /\ imageCall.requests = 0

\* handleGenerate got its image after its spec, then one text request
\* failed in generateFIBOOutfit and issued no image request
C20_Witness ==
    /\ runs > 0
    /\ generatedImage # "null"
    /\ currentSpec # NoSpec
    /\ route = "text"
    /\ fiboCall.pc = "thrown"
    /\ rpc = "thrown"
    /\ imageCall.requests = 0

-----------------------------------------------------------------------------
(* geminiService: more properties, under UISpec *)

\* a spec without one of the three fields the image prompt reads into
LacksPromptField(spec) ==
    \/ spec.texture_layers = "absent"
    \/ spec.camera = "absent"
    \/ spec.color_scheme = "absent"

\* C21: a parsed object that lacks texture_layers, camera or color_scheme is
\* returned as it is by generateOutfitSpecification, and generateOutfitImage
\* on it throws a TypeError while building its prompt, with no model request
\* made: the caller gets the error, not the placeholder URL.
C21_MalformedSpecThrowsInPromptBuilder ==
    (specCall.pc = "returned" /\ LacksPromptField(specCall.out.val))
        => /\ specCall.out.val = specCall.resp.json
           /\ imageCall.spec = specCall.out.val
           /\ imageCall.pc = "thrown"
           /\ imageCall.err = "TypeError"
           /\ imageCall.requests = 0
           /\ imageCall.url # PlaceholderUrl
           /\ generatedImage = "null"
           /\ alerts > 0
           /\ upc = "idle"

\* a spec with everything but texture_layers was returned and the image call
\* threw on it
C21_Witness ==
    /\ specCall.pc = "returned"
    /\ specCall.out.val = [FullObject EXCEPT !.texture_layers = "absent"]
    /\ imageCall.pc = "thrown"
    /\ imageCall.requests = 0

-----------------------------------------------------------------------------
(* no retry: properties, under RequestSpec *)

\* C22: no function asks again: a call of generateOutfitSpecification or of
\* generateFIBOOutfit issues at most one model request, and a
\* generateFIBOBatch call on N inputs at most N, each for a position of
\* paramsArray of its own, whether requests fail or not.
C22_NoRetry ==
    /\ specCall.requests <= 1
    /\ fiboCall.requests <= 1
    /\ specCall.pc \in {"returned", "thrown"} => specCall.requests = 1
    /\ fiboCall.pc \in {"returned", "thrown"} => fiboCall.requests = 1
    /\ Len(calls) <= Len(paramsArray)
    /\ \A c \in 1..Len(calls) :
          /\ \E j \in 1..Len(paramsArray) : paramsArray[j] = calls[c].params
          /\ \A d \in 1..Len(calls) : calls[d].params = calls[c].params => d = c

\* both generators failed after their one request
C22_Witness ==
    /\ specCall.pc = "thrown"
    /\ specCall.requests = 1
    /\ specCall.out.err = "UpstreamError"
    /\ fiboCall.pc = "thrown"
    /\ fiboCall.requests = 1

-----------------------------------------------------------------------------
(* generateFIBOBatch: more properties, under BatchSpec *)

\* the requests of the batch call that have not settled
InFlight == { c \in 1..Len(calls) : calls[c].st = "inflight" }

\* C23: at any time of a generateFIBOBatch call at most 3 of its requests
\* are unresolved, all of the chunk issued last, also when a request of that
\* chunk has failed and the call has thrown.
C23_AtMostThreeInFlight ==
    /\ Cardinality(InFlight) <= 3
    /\ Cardinality(InFlight) <= batchSize
    /\ \A c \in InFlight : ChunkOf(c) = Len(batches) - 1

\* the call has thrown in its second chunk and two requests of the chunk are
\* still unresolved
C23_Witness ==
    /\ bpc = "thrown"
    /\ Len(batches) = 2
    /\ Cardinality(InFlight) = 2

\* the requests of the chunk of call c that failed
FailedInChunk(c) ==
    { d \in 1..Len(calls) : ChunkOf(d) = ChunkOf(c) /\ calls[d].st = "err" }

\* C24: when every request the batch call issues settles in the end, the
\* call settles in the end, returning or throwing; and as long as a request
\* of a chunk is unsettled and no request of that chunk has failed, the call
\* is pending at its await and no request of a later chunk has been issued.
C24_SettlesIfRequestsSettle ==
    /\ [](\A c \in InFlight :
            FailedInChunk(c) = {}
                => /\ bpc = "await"
                   /\ pall.st = "pending"
                   /\ Len(batches) = ChunkOf(c) + 1
                   /\ Len(calls) <= (ChunkOf(c) + 1) * batchSize)
    /\ (bpc = "await") ~> (bpc \in {"returned", "thrown"})

\* the call is held at its second chunk by one request, the others of the
\* chunk done, with a third chunk to come
C24_Witness ==
    /\ bpc = "await"
    /\ Len(batches) = 2
    /\ Cardinality(InFlight) = 1
    /\ \A c \in InFlight : FailedInChunk(c) = {}
    /\ Len(paramsArray) > 2 * batchSize

-----------------------------------------------------------------------------
(* processUserRequest: more properties, under RouterSpec *)

\* the exchanges kept for the user of the request
HistoryOfRequest == conversationHistory[request.user_id]

\* C25: on the voice path, when the voice conversation is over and the
\* specification generation after it fails, the request throws and forwards
\* a failure record, and the exchange of the conversation stays the newest
\* entry of the user's history: the failed request has changed the history.
C25_FailedVoiceRequestKeepsExchange ==
    (route = "voice" /\ fiboCall.pc = "thrown")
        => /\ rpc \in {"telemetryErr", "thrown"}
           /\ rpc = "thrown" => routerOut.status = "thrown"
           /\ Len(telemetry) = served
           /\ telemetry[Len(telemetry)] = errorTelemetry(request)
           /\ ~telemetry[Len(telemetry)].success
           /\ Len(HistoryOfRequest) > 0
           /\ HistoryOfRequest[Len(HistoryOfRequest)] =
                 Exchange(MockTranscript, voiceText, Len(pushLog[request.user_id]))

\* a voice request threw after its specification request was rejected, with
\* the exchange in the history
C25_Witness ==
    /\ route = "voice"
    /\ rpc = "thrown"
    /\ fiboCall.pc = "thrown"
    /\ fiboCall.out.err = "UpstreamError"
    /\ Len(HistoryOfRequest) = 1
    /\ HistoryOfRequest[1].assistant = voiceText

-----------------------------------------------------------------------------
(* DatadogObservability: properties, under MonitorSpec *)

\* the record the step gave to streamLLMTelemetry
StreamedRecord == telemetry'[Len(telemetry')]

\* C26: on an enabled monitor every streamLLMTelemetry call appends 4 metrics
\* to the buffer, or 5 when the record has a quality_score (a score of 0
\* counts), and empties the whole buffer when its length is then above 20;
\* the buffer holds at most 20 metrics after each call; a disabled monitor
\* never changes its buffer.
C26_BufferGrowsByFourOrFive ==
    [][ /\ Len(metricsBuffer') <= 20
        /\ ~ddEnabled => metricsBuffer' = metricsBuffer
        /\ (ddEnabled /\ Len(telemetry') = Len(telemetry) + 1) =>
              LET n == IF StreamedRecord.quality_defined THEN 5 ELSE 4
              IN  IF Len(metricsBuffer) + n > 20
                      THEN metricsBuffer' = <<>>
                      ELSE /\ Len(metricsBuffer') = Len(metricsBuffer) + n
                           /\ SubSeq(metricsBuffer', 1, Len(metricsBuffer))
                                 = metricsBuffer ]_vars

\* the buffer of an enabled monitor was emptied by a call, and one of the
\* records had the score 0
C26_Witness ==
    /\ ddEnabled
    /\ metricsBuffer = <<>>
    /\ Len(telemetry) >= 5
    /\ lastOp = "streamLLMTelemetry"
    /\ \E k \in 1..Len(telemetry) :
          telemetry[k].quality_defined /\ telemetry[k].quality_score = Double000

\* C27: a buffered metric is flushed only by a later streamLLMTelemetry call
\* that pushes the buffer above 20 entries; while no telemetry arrives the
\* buffer, of up to 20 metrics, stays as it is, through shutdown() and every
\* other public operation.
C27_FlushedOnlyByTelemetryAboveTwenty ==
    [][ /\ Len(metricsBuffer') < Len(metricsBuffer) =>
              /\ lastOp' = "streamLLMTelemetry"
              /\ Len(telemetry') = Len(telemetry) + 1
              /\ Len(metricsBuffer) + Len(MetricsOf(StreamedRecord)) > 20
        /\ telemetry' = telemetry => metricsBuffer' = metricsBuffer
        /\ lastOp' # "streamLLMTelemetry" => metricsBuffer' = metricsBuffer ]_vars

\* shutdown() has returned and 20 metrics are still in the buffer
C27_Witness ==
    /\ Len(metricsBuffer) = 20
    /\ lastOp = "shutdown"
    /\ sdPc = "idle"
    /\ producer = "disconnected"

-----------------------------------------------------------------------------
(* UnifiedAIFashionPlatform.initialize, shutdown: properties, under
   PlatformSpec *)

InFlightInit == {"initProducer", "initConsumer", "subscribe"}

\* the step starts an initialize() call
InitializeStarts == istarted' = istarted + 1

\* C28: once an initialize() call has completed successfully, every later
\* initialize() call returns without invoking initProducer or initConsumer,
\* also after shutdown(), whose steps disconnect the clients and leave the
\* flag as it is; a failing initialize() does not set the flag, which
\* only the end of a successful call sets, and throws the error again.
C28_InitializedOnceForGood ==
    [][ /\ initialized => initialized'
        /\ (InitializeStarts /\ initialized) =>
              /\ initProducerCalls' = initProducerCalls
              /\ initConsumerCalls' = initConsumerCalls
              /\ producer' = producer /\ consumer' = consumer
              /\ \E c \in Callers :
                    /\ icall'[c].pc = "returned"
                    /\ \A d \in Callers \ {c} : icall'[d] = icall[d]
        /\ sdPc' # sdPc =>
              /\ initialized' = initialized
              /\ initProducerCalls' = initProducerCalls
              /\ initConsumerCalls' = initConsumerCalls
              /\ producer' \in {producer, "disconnected"}
              /\ consumer' \in {consumer, "disconnected"}
        /\ \A c \in Callers :
              (icall[c].pc \in InFlightInit /\ icall'[c].pc = "thrown") =>
                  /\ initialized' = initialized
                  /\ icall'[c].err = "KafkaError"
        /\ (~initialized /\ initialized') =>
              \E c \in Callers :
                  /\ icall[c].pc \in {"initConsumer", "subscribe"}
                  /\ icall'[c].pc = "returned" ]_vars

\* one call went through, shutdown() disconnected the clients, and an
\* initialize() called after it returned without a second initProducer
C28_Witness ==
    /\ initialized
    /\ kafkaEnabled
    /\ istarted >= 2
    /\ initProducerCalls = 1 /\ initConsumerCalls = 1
    /\ producer = "disconnected" /\ consumer = "disconnected"
    /\ sdPc = "idle"
    /\ lastOp = "initialize"
    /\ \A c \in Callers : icall[c].pc \in {"idle", "returned"}

\* C29: the flag does not guard overlapping calls: an initialize() that
\* starts while the flag is still false passes the check and invokes
\* initProducer, and initConsumer after it, whether or not another call is
\* suspended at one of its awaits; so both can be invoked twice.
C29_OverlappingCallsBothInitialize ==
    [][ /\ (InitializeStarts /\ ~initialized) =>
              /\ initProducerCalls' = initProducerCalls + 1
              /\ \E c \in Callers :
                    icall[c].pc \notin InFlightInit /\ icall'[c].pc = "initProducer"
        /\ \A c \in Callers :
              (icall[c].pc = "initProducer" /\ icall'[c].pc # "initProducer") =>
                  \/ icall'[c].pc = "thrown"
                  \/ /\ icall'[c].pc = "initConsumer"
                     /\ initConsumerCalls' = initConsumerCalls + 1 ]_vars

\* two calls overlap, and each of initProducer and initConsumer has been
\* invoked twice
C29_Witness ==
    /\ istarted = 2
    /\ initProducerCalls = 2 /\ initConsumerCalls = 2
    /\ \A c \in Callers : icall[c].pc \in {"initConsumer", "subscribe"}

-----------------------------------------------------------------------------
(* handleGenerate: the end of a run, under UISpec *)

\* the step ends a run of handleGenerate
RunEnds == upc # "idle" /\ upc' = "idle"

\* C30: every run of handleGenerate ends with isGenerating false; the history
\* gains exactly one entry, put in front, if and only if both the
\* specification and the image generation returned; a failed run leaves the
\* history as it was and shows one alert.
C30_RunEndsIdleHistoryOnSuccess ==
    [][ /\ RunEnds =>
              /\ isGenerating' = FALSE
              /\ IF specCall'.pc = "returned" /\ imageCall'.pc = "returned"
                 THEN /\ Len(history') = Len(history) + 1
                      /\ Tail(history') = history
                      /\ Head(history') =
                            GeneratedResult(specCall'.params, specCall'.out.val,
                                            imageCall'.url)
                      /\ alerts' = alerts
                 ELSE /\ history' = history
                      /\ alerts' = alerts + 1
        /\ ~RunEnds => (history' = history /\ alerts' = alerts)
        /\ upc' = "idle" => ~isGenerating' ]_vars

\* two runs are over: one put its result in front of the history, one
\* failed and showed the alert
C30_Witness ==
    /\ upc = "idle"
    /\ runs = 2
    /\ ~isGenerating
    /\ Len(history) = Len(MOCK_HISTORY) + 1
    /\ SubSeq(history, 2, Len(history)) = MOCK_HISTORY
    /\ alerts = 1

====
